---- MODULE Spec2Model ----
(***************************************************************************)
(* napcat-plugin-debug: the JSON-RPC client endpoint (RpcClient of the CLI *)
(* and SimpleRpcClient of the Vite plugin) and the host-side DebugServer.  *)
(*                                                                         *)
(* SpecRpc  : one client endpoint on one socket; the peer may send any     *)
(*            frame at any time.                                           *)
(* SpecHost : the DebugServer with its connections, its request handler    *)
(*            and the plugin-management collaborator (pm).                 *)
(***************************************************************************)
EXTENDS Integers, Sequences, FiniteSets, TLC

\* ------------------------------------------------------------------ bounds

\* Calls made on one endpoint.
MaxCalls == 2

\* Request frames the host receives, over all connections; no frame arrives
\* after the last of them.
MaxReqs == 2

\* Of these, the leading ones that are drawn from every method of the table.
MaxAny == 1

\* Events the host process broadcasts.
MaxEvents == 1

\* Builds Vite runs with the plugin (watch mode rebuilds).
MaxBuilds == 2

\* Deploy commands given to the CLI's REPL.
MaxDeploys == 2

\* ------------------------------------------------------- values and frames

\* An absent optional value is the empty sequence, a present one <<v>>.
None == << >>
Some(v) == <<v>>

\* JSON-RPC error codes the host produces (core/state.ts handleRpc).
CodeServerError == -32000
CodeSelfProtect == -32001
CodeMethodNotFound == -32601

\* A frame as the message handlers read it: whether JSON.parse accepts it and
\* yields an object, and the fields jsonrpc, id, method, params, error, result.
Frame(shape, ver, id, method, params, error, result) ==
    [shape |-> shape, jsonrpc |-> ver, id |-> id, method |-> method, params |-> params,
     error |-> error, result |-> result]

\* Text that is not JSON: JSON.parse throws.
TextFrame == Frame("text", "", None, "", << >>, None, "")
\* The JSON text `null`: JSON.parse returns null, msg.jsonrpc throws.
NullFrame == Frame("null", "", None, "", << >>, None, "")

RpcErrors ==
    { [code |-> CodeServerError, message |-> "boom"],
      [code |-> CodeSelfProtect, message |-> "self"],
      [code |-> CodeMethodNotFound, message |-> "Method not found" ] }

\* Ids a peer may put on a frame: 0, every id the endpoint can issue, and one more.
FrameIds == 0 .. (MaxCalls + 1)

ResultFrames == { Frame("object", "2.0", Some(i), "", << >>, None, "pong") : i \in FrameIds }
ErrorFrames ==
    { Frame("object", "2.0", Some(i), "", << >>, Some(e), "") : i \in FrameIds, e \in RpcErrors }
\* welcome / event notifications: a method and no id.
NotificationFrames ==
    { Frame("object", "2.0", None, m, << >>, None, "") : m \in {"welcome", "event"} }
\* An object that is not JSON-RPC 2.0.
BadVersionFrames == { Frame("object", "1.0", Some(i), "", << >>, None, "pong") : i \in FrameIds }
\* An object carrying both an id and a method.
IdMethodFrames == { Frame("object", "2.0", Some(i), "event", << >>, None, "") : i \in FrameIds }

RpcFrames ==
    {TextFrame, NullFrame} \cup ResultFrames \cup ErrorFrames \cup NotificationFrames
        \cup BadVersionFrames \cup IdMethodFrames

\* ------------------------------------------------------------ host values

\* DEFAULT_CONFIG
DEFAULT_CONFIG == [port |-> 8998, host |-> "127.0.0.1", enableAuth |-> FALSE, authToken |-> ""]

\* DebugServer.SELF_PLUGIN_ID
SELF_PLUGIN_ID == "napcat-plugin-debug"

\* Connections made to the host.
Conns == {"c1", "c2"}

\* Plugin ids a request names.
PluginIds == {SELF_PLUGIN_ID, "other"}

\* Methods the client calls in this model.
RpcMethods == {"ping", "reloadPlugin"}

\* The request frame call(method, ...params) sends: { jsonrpc: '2.0', id, method, params }.
Request(id, method, params) == Frame("object", "2.0", Some(id), method, params, None, "")
RpcRequest(id, method) == Request(id, method, << >>)

\* ------------------------------------------------------ promises (Calls)

\* A settled value: msg.result, or a JS Error. `new Error(message)` has a
\* message and no code property.
NoValue == [tag |-> "none", result |-> "", message |-> "", code |-> None]
ResultValue(r) == [tag |-> "result", result |-> r, message |-> "", code |-> None]
NewError(message) == [tag |-> "error", result |-> "", message |-> message, code |-> None]

\* The promise call() returns, with the bookkeeping the claims need:
\*   removed  - times pending.delete removed this Call's entry
\*   byResp   - times the message handler invoked its resolve/reject
\*   byTimer  - times the timeout callback invoked its reject
\*   from     - the frame that the message handler settled it with
NewCall(id, method) ==
    [id |-> id, method |-> method, state |-> "pending", value |-> NoValue,
     timer |-> "armed", removed |-> 0, byResp |-> 0, byTimer |-> 0, from |-> None]

\* Promise semantics: resolve/reject settle a pending promise and are ignored
\* on a settled one.
Resolve(c, v) ==
    IF c.state = "pending" THEN [c EXCEPT !.state = "resolved", !.value = v] ELSE c
Reject(c, e) ==
    IF c.state = "pending" THEN [c EXCEPT !.state = "rejected", !.value = e] ELSE c

\* Map.set / Map.delete on a function.
MapSet(m, k, v) == [x \in (DOMAIN m) \cup {k} |-> IF x = k THEN v ELSE m[x]]
MapDelete(m, k) == [x \in (DOMAIN m) \ {k} |-> m[x]]
EmptyMap == [x \in {} |-> 0]


\* ------------------------------------------------------------------ state

VARIABLES
    \* --- client endpoint (RpcClient / SimpleRpcClient) ---
    nextId,        \* this.nextId
    pending,       \* this.pending: id -> the Call (index into calls) whose callbacks it holds
    calls,         \* the promises call() has returned, in the order they were made
    sent,          \* frames the endpoint has written with ws.send and the socket took
    wsReady,       \* the socket: "open" or "closed"
    rpcUncaught,   \* an exception has escaped the message handler
    rpcLast        \* the step the endpoint took last: the operation, the Call it was
                   \* about, and of a received frame what tells whether it is a reply

rpcVars == <<nextId, pending, calls, sent, wsReady, rpcUncaught, rpcLast>>

VARIABLES
    \* --- host (DebugServer) ---
    hostConfig,    \* this.config: enableAuth, authToken
    conn,          \* each connection's socket: "none" (not yet made), "open",
                   \* "rejected" (closed by the host with 4001), "closing" (no
                   \* longer write-ready, its close event not yet delivered),
                   \* "errored" (its error event delivered), "closed"
    clients,       \* this.clients
    outbox,        \* per connection, the frames the host has sent on it
    recv,          \* per connection, the number of request frames received
    inflight,      \* handleRpc invocations suspended at an await of the collaborator:
                   \* the connection, the request id and the method
    lost,          \* requests whose response was written to a socket no longer open
    pmCalls,       \* the collaborator invocations made by the last step, in order
    hostLast,      \* the step the host took last: the operation, the connection, the
                   \* request it was about and how the collaborator answered
    events         \* the number of events broadcast so far

hostVars ==
    <<hostConfig, conn, clients, outbox, recv, inflight, lost, pmCalls, hostLast, events>>

VARIABLES
    \* --- clients (the Vite plugin napcatHmrPlugin, the CLI) ---
    client,        \* which client runs: "vite" or "cli"
    options,       \* the plugin's options: autoConnect, and config.build.watch
    rpc,           \* the socket the plugin's rpc (SimpleRpcClient) is on; 0 is null
    remotePluginPath,  \* TRUE once getDebugInfo told it, FALSE is null
    connecting,    \* the plugin's connecting flag
    isFirstBuild,  \* the plugin's isFirstBuild flag
    sockets,       \* the sockets connect() has made, in order: readyState, the
                   \* connect timer, the promise connect() returned, how far the
                   \* greeting handler is, the close code, the hook that made it
    hook,          \* the hook running ("idle": none) and the socket whose
                   \* connect() it awaits (0: none)
    build,         \* the builds started, the hook Vite calls next, and the
                   \* connection attempts writeBundle made in this build
    deploy,        \* the deploy running or last run (deployAndReload, deployPlugin)
    cli,           \* the CLI's main: its socket, how far the greeting handler is,
                   \* remotePluginPath, supportsRemoteTransfer, --deploy given,
                   \* and the process's exit status
    deploys,       \* the number of deploy commands given to the CLI's REPL
    registered     \* whether the host has the deployed unit registered

clientVars ==
    <<client, options, rpc, remotePluginPath, connecting, isFirstBuild, sockets, hook,
      build, deploy, cli, deploys, registered>>

VARIABLES
    \* --- the CLI's file watcher (createWatcher) ---
    active,        \* the watcher's active flag
    watchers,      \* the watchers map: target name -> the directory fs.watch is on
    timers,        \* the timers map: target name -> the timeout it holds
    armed,         \* the timeouts set and neither fired nor cleared: its id, the
                   \* target and the path its callback closes over
    timerSeq,      \* the number of timeouts set so far
    signals,       \* the onPluginChange calls made, in order
    reloads,       \* the CLI's onFileChange call of each signal: the directory
                   \* name, the call it awaits and the id it reloads
    burst,         \* per target, the qualifying changes since its last signal
    changes,       \* the number of change events delivered so far
    watchLast      \* the step the watcher took last

watchVars ==
    <<active, watchers, timers, armed, timerSeq, signals, reloads, burst, changes, watchLast>>

VARIABLES
    \* --- the host plugin's state (PluginState) ---
    psCtx,         \* this._ctx is set
    psConfig,      \* this._config
    configFile,    \* the file at ctx.configPath: absent, unparsable, or an
                   \* object, with the value its JSON text parses to
    psLast,        \* the step PluginState took last, and the file it found
    psSteps        \* the number of steps taken so far

stateVars == <<psCtx, psConfig, configFile, psLast, psSteps>>

VARIABLES
    \* --- the Vite plugin's WebUI artifact sets ---
    wFn,           \* the function running or last run: deployAndReload or deployWebuiOnly
    wSets,         \* webuiConfigs: per set its targetDir and how its build and copy go
    wPrimary,      \* the files of the primary output directory
    wDest,         \* the files of the unit's directory under the managed root
    wAt,           \* the index of the set the loop handles next
    wCopied,       \* the sets copied so far (hasChanges: some set was)
    wReload        \* reloadPlugin after the loop: "issued", "skipped"; "returned"
                   \* when the function returned before the loop

webVars == <<wFn, wSets, wPrimary, wDest, wAt, wCopied, wReload>>

VARIABLES
    \* --- deploys running side by side, and the managed root they write to ---
    jobs,          \* the deploys started, in order: the function, how far it is
                   \* (as deploy), the build output it read, and whether another
                   \* deploy changed the unit's directory during its transfer
    managed        \* the files under the managed root (remotePluginPath), each
                   \* by its path from there

jobVars == <<jobs, managed>>

VARIABLES
    \* --- the host plugin's lifecycle (plugin_init, plugin_set_config, plugin_cleanup) ---
    debugServer,   \* the module's debugServer: the server it refers to; 0 is null
    servers,       \* the DebugServers constructed, in order: this.wss (null, a
                   \* socket server listening, closing, or one whose listen
                   \* failed) and the port it was configured with
    hooks          \* the lifecycle calls made, in order: the function, the await
                   \* it is suspended at (or done) and the server awaited

lifeVars == <<debugServer, servers, hooks>>

vars == <<rpcVars, hostVars, clientVars, watchVars, stateVars, webVars, jobVars, lifeVars>>

\* What the client-endpoint steps leave alone.
RpcFrame == UNCHANGED <<hostVars, clientVars, watchVars, stateVars, webVars, jobVars, lifeVars>>

\* What the host steps leave alone.
HostFrame == UNCHANGED <<rpcVars, clientVars, watchVars, stateVars, webVars, jobVars, lifeVars>>

\* What the steps of the plugin and of a deploy leave alone.
ClientFrame == UNCHANGED <<rpcVars, hostVars, watchVars, stateVars, webVars, jobVars, lifeVars>>

\* What the watcher's steps leave alone.
WatchFrame == UNCHANGED <<rpcVars, hostVars, clientVars, stateVars, webVars, jobVars, lifeVars>>

\* What the steps of PluginState leave alone.
StateFrame == UNCHANGED <<rpcVars, hostVars, clientVars, watchVars, webVars, jobVars, lifeVars>>

\* What the steps over the WebUI artifact sets leave alone.
WebFrame == UNCHANGED <<rpcVars, hostVars, clientVars, watchVars, stateVars, jobVars, lifeVars>>

\* What the steps of deploys running side by side leave alone.
JobFrame == UNCHANGED <<rpcVars, hostVars, watchVars, stateVars, webVars, lifeVars>>

\* The record kept of a step: of a frame, its shape, version and id.
Step(op, h, f) == [op |-> op, h |-> h, shape |-> f.shape, jsonrpc |-> f.jsonrpc, id |-> f.id]

\* How the collaborator answers the calls of one case: all return (the last
\* one v), or call number throwAt throws t.
Returns(v) == [throwAt |-> 0, value |-> v, thrown |-> [message |-> None, str |-> ""]]
Throws(k, t) == [throwAt |-> k, value |-> "", thrown |-> t]

\* The record kept of a host step.
HostStep(op, c, id, method, params, oc) ==
    [op |-> op, conn |-> c, id |-> id, method |-> method, params |-> params,
     throwAt |-> oc.throwAt, thrown |-> oc.thrown]
NoHostStep(op) == HostStep(op, "", None, "", << >>, Returns(""))
\* A connection step: the connection and the tokens it presented.
ConnectionStep(c, query, header) ==
    HostStep("connection", c, None, "", <<query, header>>, Returns(""))
\* A broadcast step: the clients whose send threw.
BroadcastStep(failed) == HostStep("broadcast", "", None, "", <<failed>>, Returns(""))

\* new DebugServer(ctx, config): no socket server yet, no clients.
HostNew(config) ==
    /\ hostConfig = config
    /\ conn = [c \in Conns |-> "none"]
    /\ clients = {}
    /\ outbox = [c \in Conns |-> << >>]
    /\ recv = [c \in Conns |-> 0]
    /\ inflight = {}
    /\ lost = {}
    /\ pmCalls = << >>
    /\ hostLast = NoHostStep("new")
    /\ events = 0

\* A deploy not yet started.
DeployIdle ==
    [pc |-> "idle", manifest |-> "ok", calls |-> << >>, rejected |-> {}, fs |-> "untouched",
     report |-> "none", returned |-> "none", reply |-> "none"]

\* napcatHmrPlugin(options): rpc = null, remotePluginPath = null, connecting =
\* false, isFirstBuild = true, no socket made, no hook running.
PluginNew(opts) ==
    /\ options = opts
    /\ rpc = 0
    /\ remotePluginPath = FALSE
    /\ connecting = FALSE
    /\ isFirstBuild = TRUE
    /\ sockets = << >>
    /\ hook = [name |-> "idle", ws |-> 0]
    /\ build = [n |-> 0, next |-> "buildStart", attempts |-> 0]
    /\ deploy = DeployIdle

\* The plugin's defaults: autoConnect = true; a single build (no watch).
DefaultOptions == [autoConnect |-> TRUE, watch |-> FALSE]

\* main() of the CLI: new WebSocket(wsUrl), rpc = null, remotePluginPath =
\* null, supportsRemoteTransfer = false; no deploy command given yet.
CliNew(deployMode) ==
    /\ cli = [readyState |-> "CONNECTING", at |-> "none", remotePluginPath |-> FALSE,
              supportsRemoteTransfer |-> FALSE, deployMode |-> deployMode,
              exit |-> "running", code |-> 0, quit |-> FALSE, greeted |-> FALSE]
    /\ deploys = 0

\* createWatcher(watchPath, onPluginChange): no watcher, no timer, not active.
WatcherNew ==
    /\ active = FALSE
    /\ watchers = EmptyMap
    /\ timers = EmptyMap
    /\ armed = {}
    /\ timerSeq = 0
    /\ signals = << >>
    /\ reloads = << >>
    /\ burst = EmptyMap
    /\ changes = 0
    /\ watchLast = [op |-> "new", name |-> "", file |-> << >>, cleared |-> 0, events |-> 0]

\* No file at the configuration path.
NoConfigFile == [kind |-> "absent", value |-> EmptyMap]

\* new PluginState(): _ctx = null, _config = { ...DEFAULT_CONFIG }; file is
\* what is at the configuration path.
PluginStateNew(file) ==
    /\ psCtx = FALSE
    /\ psConfig = DEFAULT_CONFIG
    /\ configFile = file
    /\ psLast = [op |-> "new", file |-> file]
    /\ psSteps = 0

\* The plugin with webuiConfigs = sets, the primary output holding the files
\* primary and the unit's directory the files dest; nothing deployed yet.
WebNew(sets, primary, dest) ==
    /\ wFn = "none"
    /\ wSets = sets
    /\ wPrimary = primary
    /\ wDest = dest
    /\ wAt = 0
    /\ wCopied = {}
    /\ wReload = "none"

\* No deploy started, and the managed root holding files.
JobsNew(files) ==
    /\ jobs = << >>
    /\ managed = files

\* The host plugin's module loaded: debugServer = null, no DebugServer
\* constructed, no lifecycle function called yet.
LifeNew ==
    /\ debugServer = 0
    /\ servers = << >>
    /\ hooks = << >>

\* The plugin constructed and never run, the unit not registered; the watcher
\* and the host plugin's state as constructed.
ClientNew ==
    /\ client = "vite" /\ PluginNew(DefaultOptions) /\ CliNew(FALSE) /\ registered = FALSE
    /\ WatcherNew /\ PluginStateNew(NoConfigFile) /\ WebNew(<< >>, {}, {}) /\ JobsNew({}) /\ LifeNew

\* ------------------------------------------- client endpoint: operations

\* this.nextId++ : the value the counter holds after id n was taken.
NextIdAfter_NoIncrement(n) == n
NextIdAfter(n) == n + 1

\* call(): const id = this.nextId++; this.pending.set(id, {resolve, reject});
\* this.ws.send(JSON.stringify(req)); setTimeout(..., 30000 | 10000).
\* ws.send on a socket that is no longer open discards the frame.
RpcCall(method) ==
    /\ Len(calls) < MaxCalls
    /\ LET id == nextId
           h == Len(calls) + 1
       IN /\ nextId' = NextIdAfter(nextId)
          /\ pending' = MapSet(pending, id, h)
          /\ sent' = IF wsReady = "open" THEN Append(sent, RpcRequest(id, method)) ELSE sent
          /\ calls' = Append(calls, NewCall(id, method))
          /\ rpcLast' = Step("call", h, RpcRequest(id, method))
    /\ UNCHANGED <<wsReady, rpcUncaught>>
    /\ RpcFrame

\* JSON.parse(raw.toString()) followed by msg.jsonrpc: throws on text that is
\* not JSON and on the JSON value null.
ParseThrows(f) == f.shape # "object"

\* The try { ... } catch { } around the handler body: nothing escapes.
HandlerEscapes_NoTry(f) == ParseThrows(f)
HandlerEscapes(f) == FALSE

\* if (msg.jsonrpc === '2.0' && msg.id != null)
IsRpcReply_AnyVersion(f) == f.id # None
IsRpcReply(f) == f.jsonrpc = "2.0" /\ f.id # None

\* if (msg.error) p.reject(new Error(msg.error.message)); else p.resolve(msg.result);
SettleWith(c, f) ==
    LET d == [c EXCEPT !.byResp = @ + 1, !.from = Some(f)]
    IN IF f.error # None THEN Reject(d, NewError(f.error[1].message))
       ELSE Resolve(d, ResultValue(f.result))

\* this.pending.get(msg.id): the Call whose callbacks are kept under the id.
PendingGet_Oldest(pend, id) == pend[CHOOSE i \in DOMAIN pend : \A j \in DOMAIN pend : i <= j]
PendingGet(pend, id) == pend[id]

\* ws.on('message', ...) of the endpoint.
RpcOnMessage(f) ==
    /\ wsReady = "open"
    /\ IF ~ParseThrows(f) /\ IsRpcReply(f) /\ f.id[1] \in DOMAIN pending
       THEN LET h == PendingGet(pending, f.id[1])
            IN /\ pending' = MapDelete(pending, f.id[1])
               /\ calls' = [calls EXCEPT ![h] = SettleWith([@ EXCEPT !.removed = @ + 1], f)]
       ELSE UNCHANGED <<pending, calls>>
    /\ rpcUncaught' = (rpcUncaught \/ HandlerEscapes(f))
    /\ rpcLast' = Step("recv", 0, f)
    /\ UNCHANGED <<nextId, sent, wsReady>>
    /\ RpcFrame

\* if (this.pending.has(id)) in the timeout callback.
TimerGuard_Always(id) == TRUE
TimerGuard_Never(id) == FALSE
TimerGuard(id) == id \in DOMAIN pending

\* Frames the timeout callback writes to the socket: none.
TimerSends_Cancel(id) == <<Request(id, "cancel", << >>)>>
TimerSends(id) == << >>

\* The setTimeout callback of Call h. All Calls of an endpoint use the same
\* delay, so the timers expire in the order the Calls were made.
RpcTimeout(h) ==
    /\ h \in 1 .. Len(calls)
    /\ calls[h].timer = "armed"
    /\ \A k \in 1 .. (h - 1) : calls[k].timer = "fired"
    /\ LET id == calls[h].id
           has == id \in DOMAIN pending
           \* pending.delete(id) removes the entry of the Call registered under id
           afterDelete ==
               IF has THEN [calls EXCEPT ![pending[id]].removed = @ + 1] ELSE calls
           fired == [afterDelete EXCEPT ![h].timer = "fired"]
       IN IF TimerGuard(id)
          THEN /\ pending' = MapDelete(pending, id)
               /\ calls' = [fired EXCEPT
                     ![h] = Reject([@ EXCEPT !.byTimer = @ + 1], NewError("RPC timeout"))]
               /\ sent' = sent \o TimerSends(id)
          ELSE /\ calls' = [calls EXCEPT ![h].timer = "fired"]
               /\ UNCHANGED <<pending, sent>>
    /\ rpcLast' = Step("timer", h, TextFrame)
    /\ UNCHANGED <<nextId, wsReady, rpcUncaught>>
    /\ RpcFrame

\* The socket closes (the peer or the network ends the connection).
RpcSocketClose ==
    /\ wsReady = "open"
    /\ wsReady' = "closed"
    /\ rpcLast' = Step("close", 0, TextFrame)
    /\ UNCHANGED <<nextId, pending, calls, sent, rpcUncaught>>
    /\ RpcFrame

\* new RpcClient(ws): nextId = 1, pending empty; the socket is open (the
\* endpoint is created in the handler of the host's welcome frame).
RpcNew ==
    /\ nextId = 1
    /\ pending = EmptyMap
    /\ calls = << >>
    /\ sent = << >>
    /\ wsReady = "open"
    /\ rpcUncaught = FALSE
    /\ rpcLast = Step("new", 0, TextFrame)

RpcInit == ClientNew /\ RpcNew /\ HostNew(DEFAULT_CONFIG)

RpcNext ==
    \/ \E m \in RpcMethods : RpcCall(m)
    \/ \E f \in RpcFrames : RpcOnMessage(f)
    \/ \E h \in 1 .. MaxCalls : RpcTimeout(h)
    \/ RpcSocketClose

SpecRpc == RpcInit /\ [][RpcNext]_vars

\* The event loop runs every timer that was set.
FairSpecRpc == SpecRpc /\ \A h \in 1 .. MaxCalls : WF_vars(RpcTimeout(h))


\* ------------------------------------------- client endpoint: properties

\* The Calls whose entry has not been removed from the pending set.
PendingCalls == { h \in 1 .. Len(calls) : calls[h].removed = 0 }

\* C1: call() hands out the ids 1, 2, 3, ... in the order the Calls are made,
\* from a counter that only moves forward, so no two Calls that are pending at
\* the same time share an id and every entry of the pending set is the entry of
\* the one Call that was given that id.
C1_IdsUniquePerEndpoint ==
    /\ nextId = Len(calls) + 1
    /\ \A h \in 1 .. Len(calls) : calls[h].id = h
    /\ \A h \in PendingCalls : \A k \in PendingCalls : (h # k) => (calls[h].id # calls[k].id)
    /\ \A i \in DOMAIN pending : calls[pending[i]].id = i

\* Two Calls are pending at once.
C1_Witness == Cardinality(PendingCalls) >= 2 /\ Cardinality(DOMAIN pending) >= 2

\* C2: a Call's entry is removed from the pending set at most once, while it is
\* pending it is there, and once its timer has run it has been removed exactly
\* once; its callbacks are invoked at most once in total, by the response
\* handler or by the timeout and never by both, and exactly when its entry is
\* removed.
C2_RemovedOnceSettledOnce ==
    \A h \in 1 .. Len(calls) :
        LET c == calls[h]
        IN /\ c.removed <= 1
           /\ c.byResp + c.byTimer <= 1
           /\ c.removed = c.byResp + c.byTimer
           /\ (c.removed = 0) <=> (c.id \in DOMAIN pending /\ pending[c.id] = h)
           /\ (c.removed = 0) <=> (c.state = "pending")
           /\ (c.timer = "fired") => (c.removed = 1)
           /\ (c.byResp = 1) => (c.from # None /\ c.value # NewError("RPC timeout"))
           /\ (c.byTimer = 1) => (c.from = None /\ c.value = NewError("RPC timeout"))

\* Both orders have happened: one Call was settled by its response and its timer
\* ran afterwards, another timed out and a response with its id arrived afterwards.
C2_Witness ==
    /\ \E h \in 1 .. Len(calls) : calls[h].byResp = 1 /\ calls[h].timer = "fired"
    /\ \E k \in 1 .. Len(calls) :
          /\ calls[k].byTimer = 1
          /\ rpcLast.op = "recv"
          /\ rpcLast.shape = "object" /\ rpcLast.jsonrpc = "2.0"
          /\ rpcLast.id = Some(calls[k].id)

\* A frame the endpoint takes as the response of a pending Call: a JSON-RPC 2.0
\* object that carries an id which is in the pending set. (The endpoint tells a
\* response from a notification by the id; it does not look at a method field.)
IsPendingResponse(f, pend) ==
    /\ f.shape = "object"
    /\ f.jsonrpc = "2.0"
    /\ f.id # None
    /\ f.id[1] \in DOMAIN pend

\* C3: receiving any other frame (an id that is not pending, the id of a Call
\* that already timed out, a notification, text that is not JSON, JSON that is
\* not an object, an object that is not JSON-RPC 2.0) changes neither the
\* pending set nor any Call, lets no exception escape the handler, sends
\* nothing and leaves the socket open.
C3_OtherFramesDropped ==
    [][ (rpcLast'.op = "recv" /\ ~IsPendingResponse(rpcLast', pending))
          => /\ pending' = pending
             /\ calls' = calls
             /\ sent' = sent
             /\ nextId' = nextId
             /\ rpcUncaught' = FALSE
             /\ wsReady' = "open" ]_vars

\* A response carrying the id of a Call that timed out has just been dropped
\* while another Call is pending.
C3_Witness ==
    /\ rpcLast.op = "recv"
    /\ \E h \in 1 .. Len(calls) :
          calls[h].byTimer = 1 /\ rpcLast.id = Some(calls[h].id)
    /\ DOMAIN pending # {}

\* C4: a Call whose timer runs before any response with its id was taken is
\* then rejected with Error('RPC timeout') and is out of the pending set; the
\* timeout step writes nothing to the socket and touches no other Call; and
\* every timer that was set does run, so from some moment on every Call made
\* has been settled and is out of the pending set.
C4_TimeoutRejects ==
    /\ [](\A h \in 1 .. Len(calls) :
            (calls[h].timer = "fired" /\ calls[h].byResp = 0)
               => /\ calls[h].state = "rejected"
                  /\ calls[h].value = NewError("RPC timeout")
                  /\ calls[h].id \notin DOMAIN pending)
    /\ [][ rpcLast'.op = "timer"
             => /\ sent' = sent
                /\ \A k \in 1 .. Len(calls) : (k # rpcLast'.h) => (calls'[k] = calls[k]) ]_vars
    /\ <>[](\A h \in 1 .. Len(calls) :
               /\ calls[h].timer = "fired"
               /\ calls[h].state # "pending"
               /\ calls[h].id \notin DOMAIN pending)

\* One Call has timed out while another one was settled by its response.
C4_Witness ==
    \E h \in 1 .. Len(calls) : \E k \in 1 .. Len(calls) :
        /\ h # k
        /\ calls[h].byTimer = 1 /\ calls[h].state = "rejected"
        /\ calls[k].byResp = 1
        /\ Len(sent) = Len(calls)

\* C5: a Call rejected by a response that carries an error field is rejected
\* with a value that carries that error's code and its message.
C5_RejectionCarriesCode ==
    \A h \in 1 .. Len(calls) :
        (calls[h].from # None /\ calls[h].from[1].error # None)
            => /\ calls[h].state = "rejected"
               /\ calls[h].value.message = calls[h].from[1].error[1].message
               /\ calls[h].value.code = Some(calls[h].from[1].error[1].code)


\* ------------------------------------------------------- host: handleRpc

\* const params = req.params || []; params[i] of a missing element is undefined.
Arg(params, i) == IF i <= Len(params) THEN params[i] ELSE "undefined"

\* One invocation of the plugin-management collaborator (ctx.pluginManager).
PmCall(op, args) == [op |-> op, args |-> args]

\* The cases of the switch: served without the collaborator, by synchronous
\* collaborator calls, and by an awaited collaborator call.
LocalMethods == {"ping"}
SyncMethods ==
    {"getDebugInfo", "getPluginPath", "getAllPlugins", "getLoadedPlugins", "getPluginInfo",
     "getPluginDataPath", "getPluginConfigPath", "getPluginConfig"}
AsyncMethods ==
    {"setPluginStatus", "loadPluginById", "unregisterPlugin", "reloadPlugin", "scanPlugins",
     "loadDirectoryPlugin", "uninstallPlugin"}

\* The case labels of the switch.
DispatchTable == LocalMethods \cup SyncMethods \cup AsyncMethods

\* The switch has a case for the method (otherwise: default).
IsKnownMethod_NoDefault(method) == TRUE
IsKnownMethod(method) == method \in DispatchTable

\* if (targetId === DebugServer.SELF_PLUGIN_ID) in the cases unregisterPlugin,
\* reloadPlugin and uninstallPlugin.
IsSelfProtected_UnregisterOnly(method, params) ==
    method = "unregisterPlugin" /\ Arg(params, 1) = SELF_PLUGIN_ID
IsSelfProtected(method, params) ==
    /\ method \in {"unregisterPlugin", "reloadPlugin", "uninstallPlugin"}
    /\ Arg(params, 1) = SELF_PLUGIN_ID

\* The collaborator invocations a case makes, in order.
PmCallsFor(method, params) ==
    CASE method = "getDebugInfo" ->
            << PmCall("getAllPlugins", << >>), PmCall("getLoadedPlugins", << >>),
               PmCall("getPluginPath", << >>) >>
      [] method \in {"getPluginPath", "getAllPlugins", "getLoadedPlugins", "scanPlugins",
                     "getPluginConfig"} ->
            << PmCall(method, << >>) >>
      [] method \in {"getPluginInfo", "loadPluginById", "unregisterPlugin", "reloadPlugin",
                     "loadDirectoryPlugin", "getPluginDataPath", "getPluginConfigPath"} ->
            << PmCall(method, << Arg(params, 1) >>) >>
      [] method \in {"setPluginStatus", "uninstallPlugin"} ->
            << PmCall(method, << Arg(params, 1), Arg(params, 2) >>) >>
      [] OTHER -> << >>

\* What the collaborator may return from the (last) call of a case.
PmReturns(method) ==
    CASE method \in {"loadPluginById", "reloadPlugin"} -> {"true", "false"}
      [] method = "getPluginInfo" -> {"value", "null"}
      [] method \in {"setPluginStatus", "unregisterPlugin", "loadDirectoryPlugin",
                     "uninstallPlugin"} -> {"undefined"}
      [] OTHER -> {"value"}

\* result = ... of a case, given what the collaborator returned.
ResultOf(method, v) ==
    CASE method = "ping" -> "pong"
      [] method \in {"setPluginStatus", "unregisterPlugin", "loadDirectoryPlugin",
                     "uninstallPlugin"} -> "true"
      [] OTHER -> v

\* Values the collaborator throws: an Error with a message, and a string.
PmThrown == { [message |-> Some("boom"), str |-> "Error: boom"],
              [message |-> None, str |-> "oops"] }

\* err.message || String(err)
ErrMessage(t) == IF t.message # None /\ t.message[1] # "" THEN t.message[1] ELSE t.str

\* An error message: its text and the value spliced into it.
Message(text, arg) == [text |-> text, arg |-> arg]

\* { jsonrpc: '2.0', id: req.id, result } and { jsonrpc: '2.0', id: req.id, error }.
OkResponse(id, result) == Frame("object", "2.0", id, "", << >>, None, result)
ErrResponse(id, code, message) ==
    Frame("object", "2.0", id, "", << >>, Some([code |-> code, message |-> message]), "")

\* default: Method not found
NotFoundResponse(f) ==
    ErrResponse(f.id, CodeMethodNotFound, Message("Method not found: ", f.method))

\* The self-protection responses: one message for unregisterPlugin and
\* uninstallPlugin, another for reloadPlugin.
SelfProtectResponse(f) ==
    ErrResponse(f.id, CodeSelfProtect,
        Message(IF f.method = "reloadPlugin" THEN "cannot reload self" ELSE "cannot unload self",
                SELF_PLUGIN_ID))

\* catch (err) of handleRpc: the frames the handler then has to send.
OnThrow_Swallow(id, t) == << >>
OnThrow(id, t) == << ErrResponse(id, CodeServerError, Message(ErrMessage(t), "")) >>

\* return { jsonrpc: '2.0', id: req.id, result }
OnReturn(id, method, v) == << OkResponse(id, ResultOf(method, v)) >>

\* const response = await this.handleRpc(msg); ws.send(JSON.stringify(response)):
\* the frames written for one response.
SendFrames_Twice(frames) == frames \o frames
SendFrames(frames) == frames

\* The answers possible for the synchronous part of a request.
Outcomes(f) ==
    IF f.method \in SyncMethods
    THEN { Returns(v) : v \in PmReturns(f.method) }
         \cup { Throws(k, t) : k \in 1 .. Len(PmCallsFor(f.method, f.params)), t \in PmThrown }
    ELSE { Returns("undefined") }

\* The answers possible for an awaited collaborator call.
AwaitOutcomes(method) ==
    { Returns(v) : v \in PmReturns(method) } \cup { Throws(1, t) : t \in PmThrown }

\* if (msg.jsonrpc === '2.0' && msg.method)
IsHostRequest(f) == f.jsonrpc = "2.0" /\ f.method # ""

TotalRecv == recv["c1"] + recv["c2"]


\* ------------------------------------------------------ host: operations

\* The greeting: { jsonrpc: '2.0', method: 'welcome', params: { version, pluginCount } }.
Welcome == Frame("object", "2.0", None, "welcome", << "1.0.0", "pluginCount" >>, None, "")

\* url.searchParams.get('token') || req.headers['authorization']?.replace('Bearer ', '')
\* A header is the sequence of its words; replace('Bearer ', '') drops a leading
\* "Bearer" (an absent header stays undefined).
StripBearer(header) ==
    IF header # None /\ header[1] = "Bearer" THEN Tail(header) ELSE header
PresentedToken_QueryOnly(query, header) == query
PresentedToken(query, header) ==
    IF query # None /\ query[1] # "" THEN query ELSE StripBearer(header)

\* if (this.config.enableAuth && this.config.authToken)
AuthChecked == hostConfig.enableAuth /\ hostConfig.authToken # ""

\* wss.on('connection', ...): the token check, then clients.add, the handlers
\* and the greeting.
HostConnection(c, query, header) ==
    /\ conn[c] = "none"
    /\ IF AuthChecked /\ PresentedToken(query, header) # Some(hostConfig.authToken)
       THEN /\ conn' = [conn EXCEPT ![c] = "rejected"]
            /\ pmCalls' = << >>
            /\ UNCHANGED <<clients, outbox>>
       ELSE /\ conn' = [conn EXCEPT ![c] = "open"]
            /\ clients' = clients \cup {c}
            /\ pmCalls' = << PmCall("getAllPlugins", << >>) >>
            /\ outbox' = [outbox EXCEPT ![c] = Append(@, Welcome)]
    /\ hostLast' = ConnectionStep(c, query, header)
    /\ UNCHANGED <<hostConfig, recv, inflight, lost, events>>
    /\ HostFrame

\* ws.on('message', ...) up to the first await that leaves the event loop free:
\* a frame that is not a request is ignored; a request is answered at once
\* (ping, unknown method, self-protection, the synchronous collaborator calls,
\* which may throw) or its handler is suspended on the awaited collaborator call.
HostOnMessage(c, f, oc) ==
    /\ conn[c] = "open"
    /\ TotalRecv < MaxReqs
    /\ IF ParseThrows(f) \/ ~IsHostRequest(f)
       THEN /\ pmCalls' = << >>
            /\ hostLast' = NoHostStep("ignored")
            /\ UNCHANGED <<outbox, recv, inflight>>
       ELSE /\ recv' = [recv EXCEPT ![c] = @ + 1]
            /\ hostLast' = HostStep("request", c, f.id, f.method, f.params, oc)
            /\ IF ~IsKnownMethod(f.method)
               THEN /\ outbox' = [outbox EXCEPT ![c] = @ \o SendFrames(<<NotFoundResponse(f)>>)]
                    /\ pmCalls' = << >>
                    /\ UNCHANGED inflight
               ELSE IF IsSelfProtected(f.method, f.params)
               THEN /\ outbox' = [outbox EXCEPT ![c] = @ \o SendFrames(<<SelfProtectResponse(f)>>)]
                    /\ pmCalls' = << >>
                    /\ UNCHANGED inflight
               ELSE IF f.method \in AsyncMethods
               THEN /\ pmCalls' = PmCallsFor(f.method, f.params)
                    /\ inflight' = inflight \cup
                          {[conn |-> c, id |-> f.id, method |-> f.method]}
                    /\ UNCHANGED outbox
               ELSE /\ pmCalls' =
                          IF oc.throwAt = 0 THEN PmCallsFor(f.method, f.params)
                          ELSE SubSeq(PmCallsFor(f.method, f.params), 1, oc.throwAt)
                    /\ outbox' = [outbox EXCEPT ![c] = @ \o SendFrames(
                          IF oc.throwAt = 0 THEN OnReturn(f.id, f.method, oc.value)
                          ELSE OnThrow(f.id, oc.thrown))]
                    /\ UNCHANGED inflight
    /\ UNCHANGED <<hostConfig, conn, clients, lost, events>>
    /\ HostFrame

\* The awaited collaborator call of a suspended handler settles: handleRpc
\* returns the result or, from its catch, the error response, and the message
\* handler writes it with ws.send. On a socket that is no longer open nothing
\* is written.
HostPmSettle(r, oc) ==
    /\ r \in inflight
    /\ inflight' = inflight \ {r}
    /\ LET frames == IF oc.throwAt = 0 THEN OnReturn(r.id, r.method, oc.value)
                     ELSE OnThrow(r.id, oc.thrown)
       IN IF conn[r.conn] = "open"
          THEN /\ outbox' = [outbox EXCEPT ![r.conn] = @ \o SendFrames(frames)]
               /\ UNCHANGED lost
          ELSE /\ lost' = lost \cup {<<r.conn, r.id>>}
               /\ UNCHANGED outbox
    /\ pmCalls' = << >>
    /\ hostLast' = HostStep("settle", r.conn, r.id, r.method, << >>, oc)
    /\ UNCHANGED <<hostConfig, conn, clients, recv, events>>
    /\ HostFrame

\* ws.on('close', ...): the client or the network closed the socket.
HostSocketClose(c) ==
    /\ conn[c] \in {"open", "closing", "errored"}
    /\ conn' = [conn EXCEPT ![c] = "closed"]
    /\ clients' = clients \ {c}
    /\ pmCalls' = << >>
    /\ hostLast' = NoHostStep("close")
    /\ UNCHANGED <<hostConfig, outbox, recv, inflight, lost, events>>
    /\ HostFrame

\* The socket leaves readyState OPEN (the closing handshake has begun or the
\* peer is gone); its close event is delivered later. No handler runs.
HostSocketClosing(c) ==
    /\ conn[c] = "open"
    /\ conn' = [conn EXCEPT ![c] = "closing"]
    /\ pmCalls' = << >>
    /\ hostLast' = NoHostStep("closing")
    /\ UNCHANGED <<hostConfig, clients, outbox, recv, inflight, lost, events>>
    /\ HostFrame

\* ws.on('error', ...): this.clients.delete(ws); the close event follows.
HostSocketError(c) ==
    /\ conn[c] \in {"open", "closing"}
    /\ conn' = [conn EXCEPT ![c] = "errored"]
    /\ clients' = clients \ {c}
    /\ pmCalls' = << >>
    /\ hostLast' = NoHostStep("error")
    /\ UNCHANGED <<hostConfig, outbox, recv, inflight, lost, events>>
    /\ HostFrame

\* { jsonrpc: '2.0', method: 'event', params: event }
EventFrame == Frame("object", "2.0", None, "event", << "event" >>, None, "")

\* c.readyState === 1
WriteReady(c) == conn[c] = "open"

\* The clients broadcastEvent writes to: those of this.clients that pass the
\* readyState test.
BroadcastTargets_All == Conns
BroadcastTargets_Clients == clients
BroadcastTargets == { c \in clients : WriteReady(c) }

\* try { ... c.send(msg) } catch { } inside the loop: after a send that throws
\* the loop goes on, no later client is skipped.
SkipsAfterThrow_Aborts(failed, c) == \E d \in failed : d = "c1" /\ c = "c2"
SkipsAfterThrow(failed, c) == FALSE

\* broadcastEvent(event), called by plugin_onmessage and plugin_onevent: failed
\* are the clients whose send throws.
HostBroadcast(failed) ==
    /\ events < MaxEvents
    /\ events' = events + 1
    /\ failed \subseteq BroadcastTargets
    /\ outbox' = [c \in Conns |->
                    IF c \in BroadcastTargets /\ c \notin failed /\ ~SkipsAfterThrow(failed, c)
                    THEN Append(outbox[c], EventFrame) ELSE outbox[c]]
    /\ pmCalls' = << >>
    /\ hostLast' = BroadcastStep(failed)
    /\ UNCHANGED <<hostConfig, conn, clients, recv, inflight, lost>>
    /\ HostFrame

\* Tokens a client presents in the query string and in the Authorization header.
QueryTokens == {None, Some(""), Some("secret"), Some("wrong")}
HeaderTokens == {None, <<"Bearer", "secret">>, <<"secret">>, <<"Bearer", "wrong">>}

\* The requests clients make: every method of the table and one outside it.
HostRequests ==
    { [method |-> m, params |-> << >>] :
        m \in {"ping", "getDebugInfo", "getPluginPath", "getAllPlugins", "getLoadedPlugins",
               "scanPlugins", "getPluginConfig", "bogus"} }
    \cup { [method |-> m, params |-> <<p>>] :
        m \in {"getPluginInfo", "loadPluginById", "unregisterPlugin", "reloadPlugin",
               "loadDirectoryPlugin", "getPluginDataPath", "getPluginConfigPath"},
        p \in PluginIds }
    \cup { [method |-> "setPluginStatus", params |-> <<p, e>>] :
        p \in PluginIds, e \in {"true", "false"} }
    \cup { [method |-> "uninstallPlugin", params |-> <<p, "true">>] : p \in PluginIds }

\* The requests clients keep making throughout a run: one served without the
\* collaborator, one by a synchronous collaborator call, one by an awaited
\* collaborator call, one refused by the self-protection check, and one
\* outside the table.
CoreRequests ==
    { [method |-> "ping", params |-> << >>],
      [method |-> "getAllPlugins", params |-> << >>],
      [method |-> "setPluginStatus", params |-> <<"other", "true">>],
      [method |-> "reloadPlugin", params |-> <<SELF_PLUGIN_ID>>],
      [method |-> "bogus", params |-> << >>] }

\* The requests offered once n requests have arrived: the first MaxAny requests
\* of a run are drawn from all of HostRequests, the later ones from CoreRequests.
RequestsAfter(n) == IF n < MaxAny THEN HostRequests ELSE CoreRequests

\* The frames a client may send on connection c: its next request (clients
\* number their requests 1, 2, 3, ...), and frames that are no request.
HostFramesFor(c) ==
    { Request(recv[c] + 1, rq.method, rq.params) : rq \in RequestsAfter(TotalRecv) }
    \cup { TextFrame, NullFrame,
           Frame("object", "1.0", Some(recv[c] + 1), "ping", << >>, None, ""),
           Frame("object", "2.0", Some(recv[c] + 1), "", << >>, None, "pong") }

\* The client endpoint idle, the host constructed with the default configuration.
HostInit == ClientNew /\ RpcNew /\ HostNew(DEFAULT_CONFIG)

HostNext ==
    \/ \E c \in Conns : HostConnection(c, None, None)
    \/ \E c \in Conns : \E f \in HostFramesFor(c) : \E oc \in Outcomes(f) : HostOnMessage(c, f, oc)
    \/ \E r \in inflight : \E oc \in AwaitOutcomes(r.method) : HostPmSettle(r, oc)
    \/ \E c \in Conns : HostSocketClose(c)

SpecHost == HostInit /\ [][HostNext]_vars


\* ------------------------------------------------------- host: properties

\* The frames sent on connection c that carry the id i.
Answers(c, i) == { k \in 1 .. Len(outbox[c]) : outbox[c][k].id = Some(i) }

\* Request i of connection c is still suspended at the collaborator.
IsInflight(c, i) == \E r \in inflight : r.conn = c /\ r.id = Some(i)

\* Request i of connection c had its response written after the socket had closed.
IsLost(c, i) == <<c, Some(i)>> \in lost

ExceptionText(t) == IF t.message # None THEN t.message[1] ELSE t.str

\* The error response the claim expects for request id when t was thrown.
ServerErrorFor(id, t) == ErrResponse(id, CodeServerError, Message(ExceptionText(t), ""))

C8_UnknownMethodNotFound ==
    [][ hostLast'.op = "request" /\ hostLast'.method \notin DispatchTable
        => /\ outbox' = [outbox EXCEPT ![hostLast'.conn] = Append(@,
                  ErrResponse(hostLast'.id, CodeMethodNotFound,
                              Message("Method not found: ", hostLast'.method)))]
           /\ pmCalls' = << >>
           /\ inflight' = inflight
      ]_vars

\* A step has just answered a request with -32601 and invoked nothing.
C8_Witness ==
    \E c \in Conns :
        /\ Len(outbox[c]) >= 2
        /\ outbox[c][Len(outbox[c])].error # None
        /\ outbox[c][Len(outbox[c])].error[1].code = CodeMethodNotFound
        /\ outbox[c][Len(outbox[c])].id = Some(recv[c])
        /\ pmCalls = << >>

\* A collaborator reload or unregister of the debug service itself, and a
\* request for one.
IsSelfReloadOrUnregister(op, args) ==
    op \in {"reloadPlugin", "unregisterPlugin"} /\ Arg(args, 1) = SELF_PLUGIN_ID

\* C9: a reloadPlugin or unregisterPlugin request naming 'napcat-plugin-debug'
\* is answered in the same step with code -32001 and its id, and no step ever
\* invokes the collaborator's reload or unregister with that identity.
C9_SelfReloadUnregisterRefused ==
    /\ [](\A k \in 1 .. Len(pmCalls) :
              ~IsSelfReloadOrUnregister(pmCalls[k].op, pmCalls[k].args))
    /\ [][ hostLast'.op = "request"
              /\ IsSelfReloadOrUnregister(hostLast'.method, hostLast'.params)
           => /\ Len(outbox'[hostLast'.conn]) = Len(outbox[hostLast'.conn]) + 1
              /\ LET reply == outbox'[hostLast'.conn][Len(outbox'[hostLast'.conn])]
                 IN /\ reply.id = hostLast'.id
                    /\ reply.error # None
                    /\ reply.error[1].code = CodeSelfProtect
              /\ pmCalls' = << >>
              /\ inflight' = inflight
         ]_vars

\* Both an unregisterPlugin and a reloadPlugin of the debug service itself have
\* been refused with -32001 (the two cases have different messages).
C9_Witness ==
    \E c, d \in Conns : \E j \in 1 .. Len(outbox[c]) : \E k \in 1 .. Len(outbox[d]) :
        /\ outbox[c][j].error # None /\ outbox[d][k].error # None
        /\ outbox[c][j].error[1].code = CodeSelfProtect
        /\ outbox[d][k].error[1].code = CodeSelfProtect
        /\ outbox[c][j].error[1].message.text = "cannot unload self"
        /\ outbox[d][k].error[1].message.text = "cannot reload self"

\* A collaborator invocation that disables, unloads, unregisters or uninstalls
\* the debug service.
DisablesSelf(op, args) ==
    /\ Arg(args, 1) = SELF_PLUGIN_ID
    /\ \/ op \in {"reloadPlugin", "unregisterPlugin", "uninstallPlugin"}
       \/ op = "setPluginStatus" /\ Arg(args, 2) = "false"

\* C10: whatever requests arrive, no step invokes the collaborator with an
\* operation that disables, unloads, unregisters or uninstalls
\* 'napcat-plugin-debug'.
C10_NeverDisablesSelf ==
    \A k \in 1 .. Len(pmCalls) : ~DisablesSelf(pmCalls[k].op, pmCalls[k].args)

\* ------------------------------------- host: authentication and broadcast

\* Configurations the host is started with.
HostConfigs == { [enableAuth |-> e, authToken |-> t] : e \in BOOLEAN, t \in {"", "secret"} }

\* The requests clients make in the runs about authentication and broadcast.
AuthRequests == { [method |-> "ping", params |-> << >>] }

AuthFramesFor(c) == { Request(recv[c] + 1, rq.method, rq.params) : rq \in AuthRequests }

\* The client endpoint idle, the host constructed with any configuration.
AuthInit == ClientNew /\ RpcNew /\ \E config \in HostConfigs : HostNew(config)

AuthNext ==
    \/ \E c \in Conns : \E q \in QueryTokens : \E h \in HeaderTokens : HostConnection(c, q, h)
    \/ \E c \in Conns : \E f \in AuthFramesFor(c) : \E oc \in Outcomes(f) : HostOnMessage(c, f, oc)
    \/ \E c \in Conns : HostSocketClosing(c)
    \/ \E c \in Conns : HostSocketError(c)
    \/ \E c \in Conns : HostSocketClose(c)
    \/ \E failed \in SUBSET Conns : HostBroadcast(failed)

SpecAuth == AuthInit /\ [][AuthNext]_vars

\* The token a connection step presented, as the claims count it: the query
\* parameter, or else the bearer header.
StepToken(step) ==
    LET q == step.params[1]
        h == step.params[2]
    IN IF q # None /\ q[1] # "" THEN q
       ELSE IF h # None /\ h[1] = "Bearer" THEN Tail(h) ELSE h

\* C11: with enableAuth true, a connection whose presented token differs from
\* the configured authToken (whatever that is, the empty string included, and
\* also when no token is presented) is closed with 4001, and such a connection
\* is never in the client set, is sent no frame (no greeting, no response, no
\* event) and has no request received or dispatched.
C11_MismatchRejected ==
    /\ [][ hostLast'.op = "connection" /\ hostConfig.enableAuth
              /\ StepToken(hostLast') # Some(hostConfig.authToken)
           => conn'[hostLast'.conn] = "rejected" ]_vars
    /\ [](\A c \in Conns :
            conn[c] = "rejected" =>
                /\ c \notin clients
                /\ outbox[c] = << >>
                /\ recv[c] = 0
                /\ \A r \in inflight : r.conn # c)

\* The greetings sent on connection c.
Greetings(c) == { k \in 1 .. Len(outbox[c]) : outbox[c][k].method = "welcome" }

C13_BroadcastToReadyClients ==
    /\ [][ hostLast'.op = "broadcast"
           => \A c \in Conns :
                 outbox'[c] =
                    IF c \in clients /\ conn[c] = "open" /\ c \notin hostLast'.params[1]
                    THEN Append(outbox[c],
                                Frame("object", "2.0", None, "event", << "event" >>, None, ""))
                    ELSE outbox[c] ]_vars
    /\ [](\A c \in clients : conn[c] \in {"open", "closing"})

\* A broadcast in which the send to the first client threw and the second
\* client still received the event.
C13_Witness ==
    /\ hostLast.op = "broadcast" /\ hostLast.params[1] = {"c1"}
    /\ clients = {"c1", "c2"}
    /\ outbox["c2"][Len(outbox["c2"])].method = "event"
    /\ \A k \in 1 .. Len(outbox["c1"]) : outbox["c1"][k].method # "event"

\* ------------------------------------------------ clients: deploy

\* The unit being deployed (pkg.name of dist/package.json).
PluginName == "unit"

\* dist/package.json as a deploy finds it: readable with a name, the dist
\* directory missing, the file missing, not JSON, or without a name.
Manifests == {"ok", "nodist", "missing", "unparsable", "noname"}

\* The parameters a deploy passes with each method.
DeployParams(method) ==
    CASE method = "setPluginStatus" -> << PluginName, "true" >>
      [] method = "writeFiles" -> << "files" >>
      [] OTHER -> << PluginName >>

\* What a deploy's return is: deployAndReload returns nothing, deployPlugin a boolean.
Ret(v) == IF client = "vite" THEN "void" ELSE v

\* return, having reported (logOk, logErr, logWarn).
DeployReturn(d, report, returned) ==
    [d EXCEPT !.pc = "done", !.report = report, !.returned = Ret(returned)]

\* await rpc.call(method, ...): the request is issued and the deploy suspended.
DeployAwait(d, method) ==
    [d EXCEPT !.pc = method,
              !.calls = Append(@, [method |-> method, params |-> DeployParams(method)])]

\* The manifest passes the checks made before anything is copied or called.
ManifestAccepted_NoName(m) == m \in {"ok", "noname"}
ManifestAccepted(m) == m = "ok"

\* The first-load calls, in the order they are made.
FallbackAfter_EnableLast(method) ==
    CASE method = "loadDirectoryPlugin" -> "loadPluginById"
      [] method = "loadPluginById" -> "setPluginStatus"
      [] OTHER -> ""
FallbackAfter(method) ==
    CASE method = "loadDirectoryPlugin" -> "setPluginStatus"
      [] method = "setPluginStatus" -> "loadPluginById"
      [] OTHER -> ""

\* What is reported when a first-load call fails: a failed loadDirectoryPlugin
\* as an error (the CLI: a warning); the inner catch around setPluginStatus and
\* loadPluginById is empty and logOk follows it.
FallbackFailureReport_Always(method) == IF client = "cli" THEN "warn" ELSE "err"
FallbackFailureReport(method) ==
    IF method = "loadDirectoryPlugin"
    THEN (IF client = "cli" THEN "warn" ELSE "err")
    ELSE "ok"

\* A first-load call failed: it rejected, or it could not be made (the
\* plugin's rpc is null by then and rpc.call throws a TypeError).
FallbackRejected(d, method) ==
    DeployReturn([d EXCEPT !.rejected = @ \cup {method}], FallbackFailureReport(method), "true")

\* The next first-load call, or logOk after the last.
FallbackIssue(d, method, canCall) ==
    IF method = "" THEN DeployReturn(d, "ok", "true")
    ELSE IF canCall THEN DeployAwait(d, method)
    ELSE FallbackRejected(d, method)

\* The value reloadPlugin resolved with sends the deploy to the first-load
\* calls: the plugin tests reloaded === false, the CLI tests if (ok).
TriggersFallback_Never(v) == FALSE
TriggersFallback(v) == IF client = "vite" THEN v = "false" ELSE v # "true"

\* reloadPlugin rejected: the plugin's catch has the first-load calls in it,
\* the CLI's outer catch reports and deployPlugin still returns true.
ReloadRejected(d, canCall) ==
    IF client = "vite"
    THEN FallbackIssue(d, "loadDirectoryPlugin", canCall)
    ELSE DeployReturn(d, "err", "true")

\* deployAndReload(distDir) / deployPlugin(...) up to the first await or return.
DeployEnter_LocalOnly(m, transfer, fsOk, connected) ==
    IF client = "vite" /\ ~connected THEN DeployReturn([DeployIdle EXCEPT !.manifest = m], "err", "false")
    ELSE IF ~ManifestAccepted(m) THEN DeployReturn([DeployIdle EXCEPT !.manifest = m], "err", "false")
    ELSE IF ~fsOk THEN DeployReturn([DeployIdle EXCEPT !.manifest = m, !.fs = "failed"], "err", "false")
    ELSE DeployAwait([DeployIdle EXCEPT !.manifest = m, !.fs = "copied"], "reloadPlugin")
DeployEnter_NoReadyCheck(m, transfer, fsOk, connected) ==
    IF ~ManifestAccepted(m) THEN DeployReturn([DeployIdle EXCEPT !.manifest = m], "err", "false")
    ELSE IF client = "cli" /\ transfer THEN DeployAwait([DeployIdle EXCEPT !.manifest = m], "removeDir")
    ELSE IF ~fsOk THEN DeployReturn([DeployIdle EXCEPT !.manifest = m, !.fs = "failed"], "err", "false")
    ELSE DeployAwait([DeployIdle EXCEPT !.manifest = m, !.fs = "copied"], "reloadPlugin")
DeployEnter(m, transfer, fsOk, connected) ==
    IF client = "vite" /\ ~connected THEN DeployReturn([DeployIdle EXCEPT !.manifest = m], "err", "false")
    ELSE IF ~ManifestAccepted(m) THEN DeployReturn([DeployIdle EXCEPT !.manifest = m], "err", "false")
    ELSE IF client = "cli" /\ transfer THEN DeployAwait([DeployIdle EXCEPT !.manifest = m], "removeDir")
    ELSE IF ~fsOk THEN DeployReturn([DeployIdle EXCEPT !.manifest = m, !.fs = "failed"], "err", "false")
    ELSE DeployAwait([DeployIdle EXCEPT !.manifest = m, !.fs = "copied"], "reloadPlugin")

\* The deploy resumed with the reply to the call it awaited.
DeploySettled_TransferIgnored(d, reply, canCall) ==
    LET isRejected == reply \in {"error", "timeout"}
        d1 == IF isRejected THEN [d EXCEPT !.rejected = @ \cup {d.pc}] ELSE d
    IN CASE d.pc = "removeDir" -> DeployAwait(d1, "writeFiles")
         [] d.pc = "writeFiles" -> DeployAwait(d1, "reloadPlugin")
         [] d.pc = "reloadPlugin" ->
              IF isRejected THEN ReloadRejected([d1 EXCEPT !.reply = reply], canCall)
              ELSE IF TriggersFallback(reply)
                   THEN FallbackIssue([d EXCEPT !.reply = reply], "loadDirectoryPlugin", canCall)
                   ELSE DeployReturn([d EXCEPT !.reply = reply], "ok", "true")
         [] OTHER ->
              IF isRejected THEN FallbackRejected(d, d.pc)
              ELSE FallbackIssue(d, FallbackAfter(d.pc), canCall)
DeploySettled(d, reply, canCall) ==
    LET isRejected == reply \in {"error", "timeout"}
        d1 == IF isRejected THEN [d EXCEPT !.rejected = @ \cup {d.pc}] ELSE d
    IN CASE d.pc = "removeDir" ->
              IF isRejected THEN DeployReturn(d1, "err", "false") ELSE DeployAwait(d, "writeFiles")
         [] d.pc = "writeFiles" ->
              IF isRejected THEN DeployReturn(d1, "err", "false") ELSE DeployAwait(d, "reloadPlugin")
         [] d.pc = "reloadPlugin" ->
              IF isRejected THEN ReloadRejected([d1 EXCEPT !.reply = reply], canCall)
              ELSE IF TriggersFallback(reply)
                   THEN FallbackIssue([d EXCEPT !.reply = reply], "loadDirectoryPlugin", canCall)
                   ELSE DeployReturn([d EXCEPT !.reply = reply], "ok", "true")
         [] OTHER ->
              IF isRejected THEN FallbackRejected(d, d.pc)
              ELSE FallbackIssue(d, FallbackAfter(d.pc), canCall)

\* The plugin's rpc?.connected.
RpcConnected == rpc # 0 /\ sockets[rpc].readyState = "OPEN"

\* How a call of the deploy can end: the host's result (reloadPlugin: whether
\* the unit is registered), an error response, or the endpoint's 10 s timeout;
\* on a socket no longer open only the timeout.
Replies(method) ==
    LET results ==
            CASE method = "reloadPlugin" -> {IF registered THEN "true" ELSE "false"}
              [] method = "loadPluginById" -> {"true", "false"}
              [] OTHER -> {"true"}
    IN IF client = "vite" /\ ~RpcConnected THEN {"timeout"}
       ELSE results \cup {"error", "timeout"}

\* writeBundle after deployAndReload has returned: isFirstBuild = false.
\* While the deploy is suspended at a call, so is writeBundle.
WriteBundleAfterDeploy(d) ==
    /\ deploy' = d
    /\ IF d.pc = "done"
       THEN /\ isFirstBuild' = FALSE
            /\ hook' = [name |-> "idle", ws |-> 0]
            /\ build' = [build EXCEPT !.next = "closeBundle"]
       ELSE /\ hook' = [name |-> "writeBundle", ws |-> 0]
            /\ UNCHANGED <<isFirstBuild, build>>

\* main after deployPlugin has returned ok, in --deploy mode: ws.close(1000)
\* and process.exit(ok ? 0 : 1). The REPL goes on.
CliAfterDeploy(d) ==
    /\ deploy' = d
    /\ cli' = IF d.pc = "done" /\ cli.at = "deploy"
              THEN [cli EXCEPT !.readyState = "CLOSED", !.code = 1000,
                               !.exit = IF d.returned = "true" THEN "0" ELSE "1"]
              ELSE cli

\* A call of the deploy settles and the deploy runs on to its next await or
\* to its end (and with it the writeBundle that awaits it). A successful
\* loadDirectoryPlugin has registered the unit.
DeploySettle(reply) ==
    /\ deploy.pc \notin {"idle", "done"}
    /\ reply \in Replies(deploy.pc)
    /\ registered' = (registered \/ (deploy.pc = "loadDirectoryPlugin" /\ reply = "true"))
    /\ IF client = "vite"
       THEN /\ WriteBundleAfterDeploy(DeploySettled(deploy, reply, rpc # 0))
            /\ UNCHANGED cli
       ELSE /\ cli.exit = "running"
            /\ CliAfterDeploy(DeploySettled(deploy, reply, TRUE))
            /\ UNCHANGED <<isFirstBuild, hook, build>>
    /\ UNCHANGED <<client, options, rpc, remotePluginPath, connecting, sockets, deploys>>
    /\ ClientFrame

\* The REPL's deploy command: deployPlugin, when remotePluginPath is known.
DeployCommand(m, fsOk) ==
    /\ client = "cli"
    /\ cli.exit = "running" /\ cli.at = "repl"
    /\ deploy.pc \in {"idle", "done"}
    /\ deploys < MaxDeploys
    /\ deploys' = deploys + 1
    /\ IF cli.remotePluginPath
       THEN deploy' = DeployEnter(m, cli.supportsRemoteTransfer, fsOk, TRUE)
       ELSE m = "ok" /\ fsOk /\ UNCHANGED deploy
    /\ UNCHANGED <<client, options, rpc, remotePluginPath, connecting, isFirstBuild, sockets,
                   hook, build, cli, registered>>
    /\ ClientFrame

\* ------------------------------------------------ clients: the CLI's main

\* ws.on('open'): a log line.
CliOpen ==
    /\ client = "cli"
    /\ cli.exit = "running" /\ cli.readyState = "CONNECTING"
    /\ cli' = [cli EXCEPT !.readyState = "OPEN"]
    /\ UNCHANGED <<client, options, rpc, remotePluginPath, connecting, isFirstBuild, sockets,
                   hook, build, deploy, deploys, registered>>
    /\ ClientFrame

\* The exit status the close handler gives the process.
ExitStatus(code) == IF code = 1000 THEN "0" ELSE "1"

\* The handshake fails: ws.on('error') logs, and the 'close' that follows in
\* the same turn ends the process.
CliError ==
    /\ client = "cli"
    /\ cli.exit = "running" /\ cli.readyState = "CONNECTING"
    /\ cli' = [cli EXCEPT !.readyState = "CLOSED", !.code = 1006, !.exit = ExitStatus(1006)]
    /\ UNCHANGED <<client, options, rpc, remotePluginPath, connecting, isFirstBuild, sockets,
                   hook, build, deploy, deploys, registered>>
    /\ ClientFrame

\* ws.on('close', code): process.exit(code === 1000 ? 0 : 1).
CliClose(code) ==
    /\ client = "cli"
    /\ cli.exit = "running" /\ cli.readyState = "OPEN"
    /\ code = 4001 => cli.at = "none"
    /\ cli' = [cli EXCEPT !.readyState = "CLOSED", !.code = code, !.exit = ExitStatus(code)]
    /\ UNCHANGED <<client, options, rpc, remotePluginPath, connecting, isFirstBuild, sockets,
                   hook, build, deploy, deploys, registered>>
    /\ ClientFrame

\* The user ends the CLI: quit, exit or q at the REPL's prompt
\* (process.exit(0)), or SIGINT at any time (ws.close(1000); process.exit(0)).
CliQuit(how) ==
    /\ client = "cli"
    /\ cli.exit = "running"
    /\ how = "quit" => cli.at = "repl"
    /\ cli' = [cli EXCEPT !.exit = "0", !.quit = TRUE,
                          !.code = IF how = "sigint" THEN 1000 ELSE @,
                          !.readyState = IF how = "sigint" THEN "CLOSED" ELSE @]
    /\ UNCHANGED <<client, options, rpc, remotePluginPath, connecting, isFirstBuild, sockets,
                   hook, build, deploy, deploys, registered>>
    /\ ClientFrame

\* if (msg.method === 'welcome')
IsWelcome_AnyMessage(method) == TRUE
IsWelcome(method) == method = "welcome"

\* The notifications the host sends.
Notifications == {"welcome", "event"}

\* ws.on('message') with a notification on a socket not yet greeted. The
\* host's welcome: rpc = new RpcClient(ws), then the handler is suspended at
\* await rpc.call('getDebugInfo'). An event: logged when verbose, nothing else.
CliMessage(method) ==
    /\ client = "cli"
    /\ cli.exit = "running" /\ cli.readyState = "OPEN" /\ cli.at = "none"
    /\ cli' = [cli EXCEPT !.at = IF IsWelcome(method) THEN "getDebugInfo" ELSE @,
                          !.greeted = @ \/ method = "welcome"]
    /\ UNCHANGED <<client, options, rpc, remotePluginPath, connecting, isFirstBuild, sockets,
                   hook, build, deploy, deploys, registered>>
    /\ ClientFrame

\* getDebugInfo settles (a rejection is caught and logged); then the probe
\* rpc.call('removeDir', '__probe_nonexistent__') is awaited.
CliInfoSettle(ok) ==
    /\ client = "cli"
    /\ cli.exit = "running" /\ cli.at = "getDebugInfo"
    /\ cli' = [cli EXCEPT !.at = "probe", !.remotePluginPath = ok]
    /\ UNCHANGED <<client, options, rpc, remotePluginPath, connecting, isFirstBuild, sockets,
                   hook, build, deploy, deploys, registered>>
    /\ ClientFrame

\* The probe settles: supportsRemoteTransfer is whether it resolved. With
\* --deploy and a known remotePluginPath the handler goes on to deployPlugin
\* and exits after it; otherwise it starts the REPL.
CliProbeSettle(ok, m, fsOk) ==
    /\ client = "cli"
    /\ cli.exit = "running" /\ cli.at = "probe"
    /\ IF cli.deployMode /\ cli.remotePluginPath
       THEN LET d == DeployEnter(m, ok, fsOk, TRUE)
            IN /\ deploy' = d
               /\ cli' = IF d.pc = "done"
                         THEN [cli EXCEPT !.at = "deploy", !.supportsRemoteTransfer = ok,
                                          !.readyState = "CLOSED", !.code = 1000,
                                          !.exit = IF d.returned = "true" THEN "0" ELSE "1"]
                         ELSE [cli EXCEPT !.at = "deploy", !.supportsRemoteTransfer = ok]
       ELSE /\ m = "ok" /\ fsOk
            /\ cli' = [cli EXCEPT !.at = "repl", !.supportsRemoteTransfer = ok]
            /\ UNCHANGED deploy
    /\ UNCHANGED <<client, options, rpc, remotePluginPath, connecting, isFirstBuild, sockets,
                   hook, build, deploys, registered>>
    /\ ClientFrame

\* ------------------------------------------------ clients: the Vite plugin

\* new WebSocket(url) in connect(), with the 5 s timer set and the promise pending.
NewSocket ==
    [readyState |-> "CONNECTING", timeout |-> "armed", resolved |-> "pending",
     info |-> "none", code |-> 0, greeted |-> FALSE]

\* resolve(v) of the promise connect() returned: a second resolve does nothing.
ResolveConnect(sock, v) ==
    IF sock.resolved = "pending" THEN [sock EXCEPT !.resolved = v] ELSE sock

\* clearTimeout(timeout)
ClearTimeout(sock) == IF sock.timeout = "armed" THEN [sock EXCEPT !.timeout = "cleared"] ELSE sock

\* How connect() goes: true at once when connected, false at once when an
\* attempt is under way, else an attempt.
ConnectReturns ==
    IF RpcConnected THEN "true" ELSE IF connecting THEN "false" ELSE "attempt"

\* The part of connect() after connecting = true: the socket is made (made),
\* or the import or the constructor threw and the catch returns false.
ConnectAttempt(h, made) ==
    IF made
    THEN /\ sockets' = Append(sockets, NewSocket)
         /\ connecting' = TRUE
         /\ hook' = [name |-> h, ws |-> Len(sockets) + 1]
    ELSE /\ connecting' = FALSE
         /\ hook' = [name |-> "idle", ws |-> 0]
         /\ UNCHANGED sockets

\* buildStart(): on the first build, with autoConnect, await connect().
BuildStart(made) ==
    /\ client = "vite"
    /\ hook.name = "idle" /\ build.next = "buildStart"
    /\ build.n < MaxBuilds
    /\ build' = [n |-> build.n + 1, next |-> "writeBundle", attempts |-> 0]
    /\ IF options.autoConnect /\ isFirstBuild /\ ConnectReturns = "attempt"
       THEN ConnectAttempt("buildStart", made)
       ELSE made /\ UNCHANGED <<sockets, connecting, hook>>
    /\ UNCHANGED <<client, options, rpc, remotePluginPath, isFirstBuild, deploy, cli, deploys,
                   registered>>
    /\ ClientFrame

\* writeBundle() finding rpc connected: deployAndReload at once.
WriteBundleConnected(m, fsOk) ==
    /\ client = "vite"
    /\ hook.name = "idle" /\ build.next = "writeBundle"
    /\ RpcConnected
    /\ WriteBundleAfterDeploy(DeployEnter(m, FALSE, fsOk, RpcConnected /\ remotePluginPath))
    /\ UNCHANGED <<client, options, rpc, remotePluginPath, connecting, sockets, cli, deploys,
                   registered>>
    /\ ClientFrame

\* writeBundle() finding rpc not connected: one connect(); when that returns
\* false at once, writeBundle returns.
WriteBundleDisconnected(made) ==
    /\ client = "vite"
    /\ hook.name = "idle" /\ build.next = "writeBundle"
    /\ ~RpcConnected
    /\ IF ConnectReturns = "attempt"
       THEN /\ ConnectAttempt("writeBundle", made)
            /\ build' = [build EXCEPT !.attempts = @ + 1,
                                      !.next = IF made THEN @ ELSE "closeBundle"]
       ELSE /\ made
            /\ build' = [build EXCEPT !.next = "closeBundle"]
            /\ UNCHANGED <<sockets, connecting, hook>>
    /\ UNCHANGED <<client, options, rpc, remotePluginPath, isFirstBuild, deploy, cli, deploys,
                   registered>>
    /\ ClientFrame

\* closeBundle(): in watch mode the connection is kept and the next build
\* follows; otherwise rpc?.close() and rpc = null.
CloseBundle ==
    /\ client = "vite"
    /\ hook.name = "idle" /\ build.next = "closeBundle"
    /\ IF options.watch
       THEN /\ build' = [build EXCEPT !.next = "buildStart"]
            /\ UNCHANGED <<rpc, sockets>>
       ELSE /\ build' = [build EXCEPT !.next = "end"]
            /\ rpc' = 0
            /\ sockets' = IF RpcConnected
                          THEN [sockets EXCEPT ![rpc].readyState = "CLOSING"]
                          ELSE sockets
    /\ UNCHANGED <<client, options, remotePluginPath, connecting, isFirstBuild, hook, deploy,
                   cli, deploys, registered>>
    /\ ClientFrame

\* if (!ok) return; in writeBundle.
ProceedsToDeploy_Always(ok) == TRUE
ProceedsToDeploy(ok) == ok = "true"

\* The promise of connect() on socket s is resolved with v (when v is not
\* "pending" and it was pending): the hook awaiting it resumes before any
\* other event is handled. buildStart returns; writeBundle returns on false
\* and goes on to deployAndReload on true.
HookResumes(s, v, m, fsOk, connected) ==
    IF hook.ws = s /\ sockets[s].resolved = "pending" /\ v # "pending"
    THEN IF hook.name = "buildStart"
         THEN /\ m = "ok" /\ fsOk
              /\ hook' = [name |-> "idle", ws |-> 0]
              /\ UNCHANGED <<build, deploy, isFirstBuild>>
         ELSE IF ~ProceedsToDeploy(v)
         THEN /\ m = "ok" /\ fsOk
              /\ hook' = [name |-> "idle", ws |-> 0]
              /\ build' = [build EXCEPT !.next = "closeBundle"]
              /\ UNCHANGED <<deploy, isFirstBuild>>
         ELSE WriteBundleAfterDeploy(DeployEnter(m, FALSE, fsOk, connected))
    ELSE /\ m = "ok" /\ fsOk
         /\ UNCHANGED <<hook, build, deploy, isFirstBuild>>

\* ws.on('open'): clearTimeout(timeout).
WsOpen(s) ==
    /\ sockets[s].readyState = "CONNECTING"
    /\ sockets' = [sockets EXCEPT ![s] = ClearTimeout([@ EXCEPT !.readyState = "OPEN"])]
    /\ UNCHANGED <<client, options, rpc, remotePluginPath, connecting, isFirstBuild, hook,
                   build, deploy, cli, deploys, registered>>
    /\ ClientFrame

\* The handshake fails (refused, reset, not a WebSocket server): the socket
\* emits 'error' and then 'close' in the same turn. ws.on('error'):
\* clearTimeout, connecting = false, resolve(false); ws.on('close'): rpc = null,
\* remotePluginPath = null, connecting = false.
WsError(s) ==
    /\ sockets[s].readyState = "CONNECTING"
    /\ sockets' = [sockets EXCEPT
                      ![s] = ResolveConnect(ClearTimeout([@ EXCEPT !.readyState = "CLOSED",
                                                                   !.code = 1006]),
                                            "false")]
    /\ rpc' = 0
    /\ remotePluginPath' = FALSE
    /\ connecting' = FALSE
    /\ HookResumes(s, "false", "ok", TRUE, FALSE)
    /\ UNCHANGED <<client, options, cli, deploys, registered>>
    /\ ClientFrame

\* ws.on('message') with a notification on a socket not yet greeted. The
\* host's welcome: rpc = new SimpleRpcClient(ws), then the handler is
\* suspended at await rpc.call('getDebugInfo'). Any other frame: nothing.
\* greeted keeps whether the welcome has arrived on the socket.
WsMessage(s, method) ==
    /\ sockets[s].readyState = "OPEN"
    /\ sockets[s].info = "none"
    /\ rpc' = IF IsWelcome(method) THEN s ELSE rpc
    /\ sockets' = [sockets EXCEPT ![s].info = IF IsWelcome(method) THEN "pending" ELSE @,
                                  ![s].greeted = @ \/ method = "welcome"]
    /\ UNCHANGED <<client, options, remotePluginPath, connecting, isFirstBuild, hook, build,
                   deploy, cli, deploys, registered>>
    /\ ClientFrame

\* What the greeting handler resolves connect() with once getDebugInfo has settled.
GreetedResolves == "true"

\* getDebugInfo settles (a rejection is caught): remotePluginPath is set from
\* a result; connecting = false; resolve(true).
WsInfoSettle(s, ok, m, fsOk) ==
    /\ sockets[s].info = "pending"
    /\ ok => sockets[s].readyState = "OPEN"
    /\ remotePluginPath' = (ok \/ remotePluginPath)
    /\ connecting' = FALSE
    /\ sockets' = [sockets EXCEPT
                      ![s] = ResolveConnect([@ EXCEPT !.info = "done"], GreetedResolves)]
    /\ HookResumes(s, GreetedResolves, m, fsOk, RpcConnected /\ (ok \/ remotePluginPath))
    /\ UNCHANGED <<client, options, rpc, cli, deploys, registered>>
    /\ ClientFrame

\* The codes a socket closes with: abnormal closure, and the host's
\* authentication rejection.
CloseCodes == {1006, 4001}

\* What the close handler resolves connect() with.
CloseResolves_False(code) == "false"
CloseResolves(code) == "pending"

\* ws.on('close'): rpc = null, remotePluginPath = null, connecting = false,
\* whatever the code; the promise of connect() is left as it is. The host
\* rejects (4001) before it sends anything.
WsClose(s, code) ==
    /\ sockets[s].readyState \in {"OPEN", "CLOSING"}
    /\ code = 4001 => sockets[s].readyState = "OPEN" /\ sockets[s].info = "none"
    /\ sockets' = [sockets EXCEPT
                      ![s] = ResolveConnect([@ EXCEPT !.readyState = "CLOSED", !.code = code],
                                            CloseResolves(code))]
    /\ rpc' = 0
    /\ remotePluginPath' = FALSE
    /\ connecting' = FALSE
    /\ HookResumes(s, CloseResolves(code), "ok", TRUE, FALSE)
    /\ UNCHANGED <<client, options, cli, deploys, registered>>
    /\ ClientFrame

\* The host's close frame arrives on an open socket (the host closed the
\* connection or stopped): readyState leaves OPEN and the close event is
\* delivered later. No handler runs.
WsClosing(s) ==
    /\ sockets[s].readyState = "OPEN"
    /\ sockets' = [sockets EXCEPT ![s].readyState = "CLOSING"]
    /\ UNCHANGED <<client, options, rpc, remotePluginPath, connecting, isFirstBuild, hook,
                   build, deploy, cli, deploys, registered>>
    /\ ClientFrame

\* The 5 s timer of connect(): ws.close(), connecting = false, resolve(false).
\* It is cleared once the socket is open, so it fires on a socket still
\* connecting: ws.close() aborts the handshake and the socket emits 'error' and
\* 'close' before the promise's continuation runs.
WsTimeout(s) ==
    /\ sockets[s].timeout = "armed"
    /\ sockets' = [sockets EXCEPT
                      ![s] = ResolveConnect([@ EXCEPT !.timeout = "fired",
                                                      !.readyState = "CLOSED",
                                                      !.code = 1006],
                                            "false")]
    /\ rpc' = 0
    /\ remotePluginPath' = FALSE
    /\ connecting' = FALSE
    /\ HookResumes(s, "false", "ok", TRUE, FALSE)
    /\ UNCHANGED <<client, options, cli, deploys, registered>>
    /\ ClientFrame

\* buildStart and writeBundle each make at most one socket in a build.
MaxSockets == 2 * MaxBuilds

\* The options a plugin is made with.
PluginOptions == [autoConnect : BOOLEAN, watch : BOOLEAN]

\* The plugin constructed, or the CLI's main started; the host does not have
\* the unit registered.
ClientInit ==
    /\ RpcNew /\ HostNew(DEFAULT_CONFIG)
    /\ WatcherNew /\ PluginStateNew(NoConfigFile) /\ WebNew(<< >>, {}, {}) /\ JobsNew({}) /\ LifeNew
    /\ client \in {"vite", "cli"}
    /\ registered = FALSE
    /\ \E opts \in PluginOptions : (client = "cli" => opts = DefaultOptions) /\ PluginNew(opts)
    /\ \E deployMode \in BOOLEAN : (client = "vite" => ~deployMode) /\ CliNew(deployMode)

ClientNext ==
    \/ \E made \in BOOLEAN : BuildStart(made)
    \/ \E m \in Manifests : \E fsOk \in BOOLEAN : WriteBundleConnected(m, fsOk)
    \/ \E made \in BOOLEAN : WriteBundleDisconnected(made)
    \/ CloseBundle
    \/ \E s \in 1 .. Len(sockets) : WsOpen(s)
    \/ \E s \in 1 .. Len(sockets) : WsError(s)
    \/ \E s \in 1 .. Len(sockets) : \E method \in Notifications : WsMessage(s, method)
    \/ \E s \in 1 .. Len(sockets) : \E ok \in BOOLEAN : \E m \in Manifests : \E fsOk \in BOOLEAN :
            WsInfoSettle(s, ok, m, fsOk)
    \/ \E s \in 1 .. Len(sockets) : \E code \in CloseCodes : WsClose(s, code)
    \/ \E s \in 1 .. Len(sockets) : WsClosing(s)
    \/ \E s \in 1 .. Len(sockets) : WsTimeout(s)
    \/ CliOpen
    \/ CliError
    \/ \E code \in CloseCodes \cup {1000} : CliClose(code)
    \/ \E how \in {"quit", "sigint"} : CliQuit(how)
    \/ \E method \in Notifications : CliMessage(method)
    \/ \E ok \in BOOLEAN : CliInfoSettle(ok)
    \/ \E ok \in BOOLEAN : \E m \in Manifests : \E fsOk \in BOOLEAN : CliProbeSettle(ok, m, fsOk)
    \/ \E m \in Manifests : \E fsOk \in BOOLEAN : DeployCommand(m, fsOk)
    \/ \E reply \in {"true", "false", "error", "timeout"} : DeploySettle(reply)

SpecClient == ClientInit /\ [][ClientNext]_vars

\* The event loop runs every timer that was set: the connect timer, and the
\* endpoint's 10 s timer that settles each call.
FairSpecClient ==
    /\ SpecClient
    /\ \A s \in 1 .. MaxSockets : WF_vars(s \in 1 .. Len(sockets) /\ WsTimeout(s))
    /\ \A s \in 1 .. MaxSockets :
          WF_vars(s \in 1 .. Len(sockets) /\ WsInfoSettle(s, FALSE, "ok", TRUE))
    /\ WF_vars(DeploySettle("timeout"))

\* ------------------------------------------------ clients: connection claims

\* C14: every connection attempt terminates: the promise connect() returned
\* for a socket does not stay pending for ever, whether the socket never
\* opened, opened and was closed by the host, or opened and stayed silent.
C14_ConnectTerminates ==
    \A s \in 1 .. MaxSockets :
        (s <= Len(sockets) /\ sockets[s].resolved = "pending")
            ~> (s <= Len(sockets) /\ sockets[s].resolved # "pending")

\* The host has closed a connection of this client with 4001.
AuthRejected ==
    \/ \E s \in 1 .. Len(sockets) : sockets[s].code = 4001
    \/ cli.code = 4001

C16_OneAttemptPerBuild ==
    /\ [](build.attempts <= 1)
    /\ [][ Len(sockets') # Len(sockets) =>
              /\ Len(sockets') = Len(sockets) + 1
              /\ hook.name = "idle" /\ hook'.name \in {"buildStart", "writeBundle"}
              /\ build.next = (IF hook'.name = "buildStart" THEN "buildStart" ELSE "writeBundle")
              /\ hook'.name = "writeBundle" => build.attempts = 0 /\ build'.attempts = 1 ]_vars
    /\ [][ /\ hook.name = "idle" /\ build.next = "writeBundle" /\ ~RpcConnected
           /\ build' # build
           => build'.attempts = 1 ]_vars
    /\ [][ /\ hook.name = "writeBundle" /\ hook.ws # 0
           /\ sockets[hook.ws].resolved = "pending"
           /\ sockets'[hook.ws].resolved = "false"
           => /\ deploy' = deploy
              /\ hook'.name = "idle" /\ build'.next = "closeBundle"
              /\ Len(sockets') = Len(sockets) ]_vars

\* The first build's writeBundle attempt failed and its deploy was skipped;
\* the second build's writeBundle has made its own single attempt.
C16_Witness ==
    /\ build.n = 2 /\ build.attempts = 1
    /\ hook.name = "writeBundle" /\ hook.ws = Len(sockets)
    /\ \E s \in 1 .. Len(sockets) - 1 : sockets[s].resolved = "false"
    /\ deploy = DeployIdle

\* ------------------------------------------------ clients: deploy claims

\* C17: a deploy that finds no manifest, an unparsable manifest or a manifest
\* without a name ends at once with an error reported (deployPlugin returns
\* false), having issued no call and touched no file.
C17_PreconditionBeforeEffects ==
    deploy.manifest # "ok" =>
        /\ deploy.pc = "done"
        /\ deploy.calls = << >>
        /\ deploy.fs = "untouched"
        /\ deploy.report = "err"
        /\ deploy.returned = (IF client = "cli" THEN "false" ELSE "void")

\* A CLI whose host supports remote transfer, and a connected plugin, each
\* ended a deploy on a manifest without a name.
C17_Witness ==
    /\ deploy.manifest = "noname" /\ deploy.pc = "done"
    /\ \/ client = "cli" /\ cli.supportsRemoteTransfer
       \/ client = "vite" /\ RpcConnected /\ remotePluginPath

\* The calls a deploy has issued after the transfer of the files.
ActivationCalls ==
    SelectSeq(deploy.calls, LAMBDA c : c.method \notin {"removeDir", "writeFiles"})

\* reloadPlugin followed by the first-load calls, as C18 lists them.
FirstLoadCalls ==
    << [method |-> "reloadPlugin", params |-> << "unit" >>],
       [method |-> "loadDirectoryPlugin", params |-> << "unit" >>],
       [method |-> "setPluginStatus", params |-> << "unit", "true" >>],
       [method |-> "loadPluginById", params |-> << "unit" >> ] >>

\* C18: a deploy whose reloadPlugin got the negative result (the unit is not
\* registered) goes on to loadDirectoryPlugin, setPluginStatus(unit, true) and
\* loadPluginById, in that order and each at most once, all three when none of
\* them fails; a deploy whose reloadPlugin got the positive result (the unit is
\* registered, as after a first load) issues reloadPlugin and nothing else.
C18_FallbackOnceThenDirectReload ==
    /\ deploy.reply = "false" =>
          /\ Len(ActivationCalls) \in 2 .. 4
          /\ ActivationCalls = SubSeq(FirstLoadCalls, 1, Len(ActivationCalls))
          /\ deploy.pc # "done" => deploy.pc = ActivationCalls[Len(ActivationCalls)].method
          /\ deploy.pc = "done" /\ deploy.rejected = {} => ActivationCalls = FirstLoadCalls
    /\ deploy.reply = "true" =>
          /\ registered
          /\ deploy.pc = "done"
          /\ ActivationCalls = SubSeq(FirstLoadCalls, 1, 1)

\* A second deploy of the unit, registered by the first one's fallback, has
\* ended after reloadPlugin alone.
C18_Witness ==
    /\ deploy.reply = "true" /\ deploy.pc = "done"
    /\ Len(deploy.calls) = 1
    /\ \/ client = "vite" /\ build.n = 2
       \/ client = "cli" /\ deploys = 2

\* C19: when reloadPlugin failed by timeout or by an error response, the
\* deploy issues no loadDirectoryPlugin and ends with the failure reported.
C19_NoFallbackOnFailure ==
    deploy.reply \in {"error", "timeout"} =>
        /\ \A k \in 1 .. Len(deploy.calls) : deploy.calls[k].method # "loadDirectoryPlugin"
        /\ deploy.pc = "done" /\ deploy.report = "err"

\* C20: a deploy in which loadDirectoryPlugin succeeded and setPluginStatus or
\* loadPluginById failed ends as a success: logOk and no error reported,
\* deployPlugin returns true, and a CLI run with --deploy exits with 0.
C20_EnableLoadFailureSwallowed ==
    /\ deploy.pc = "done"
    /\ \E k \in 1 .. Len(deploy.calls) : deploy.calls[k].method = "setPluginStatus"
    /\ deploy.rejected \cap {"setPluginStatus", "loadPluginById"} # {}
    => /\ deploy.report = "ok"
       /\ deploy.returned = (IF client = "cli" THEN "true" ELSE "void")
       /\ client = "cli" /\ cli.at = "deploy" => cli.exit = "0"

\* A CLI run with --deploy whose setPluginStatus was rejected has exited.
C20_Witness ==
    /\ client = "cli" /\ cli.at = "deploy" /\ cli.exit # "running"
    /\ deploy.reply = "false"
    /\ "setPluginStatus" \in deploy.rejected

\* ------------------------------------------------ clients: deploy and readiness

\* The plugin holds an open connection that was greeted and whose getDebugInfo
\* told the managed root path.
ViteReady ==
    /\ rpc # 0
    /\ sockets[rpc].readyState = "OPEN" /\ sockets[rpc].info = "done"
    /\ remotePluginPath

\* The CLI's socket is open, the greeting handler is past getDebugInfo and the
\* managed root path is known.
CliReady ==
    /\ cli.exit = "running" /\ cli.readyState = "OPEN"
    /\ cli.at \in {"probe", "deploy", "repl"}
    /\ cli.remotePluginPath

\* A step in which the deploy issued a call.
DeployIssues == deploy'.pc \notin {"idle", "done"} /\ deploy'.pc # deploy.pc

\* A step in which the deploy issued a call whose request went out: ws.send
\* on the plugin's socket once it is closing discards the frame.
DeploySends ==
    /\ DeployIssues
    /\ client = "vite" => (rpc' # 0 => sockets'[rpc'].readyState # "CLOSING")

\* A step in which a deploy removed or wrote files of the unit's directory.
DeployTouchesFiles == deploy' # deploy /\ deploy.pc \in {"idle", "done"} /\ deploy'.fs # "untouched"

MaxChanges == 3

\* A path is the sequence of its parts, and a part is its name split at the
\* dots: "index.ts" is <<"index", "ts">>, ".git" is <<"", "git">>.
EXTS ==
    {"js", "mjs", "cjs", "ts", "mts", "cts", "json", "jsx", "tsx", "vue", "svelte",
     "html", "htm", "css", "scss", "sass", "less", "styl",
     "svg", "png", "jpg", "jpeg", "gif", "webp", "ico"}

IGNORE_DIRS ==
    {<<"node_modules">>, <<"", "git">>, <<"dist">>, <<"build">>, <<"", "vite">>, <<"", "cache">>}

\* path.extname(file) without its dot: what follows the last dot of the last
\* part; none when the part has no dot or only a leading one.
ExtName(file) ==
    LET base == file[Len(file)]
    IN IF Len(base) = 1 \/ (Len(base) = 2 /\ base[1] = "") THEN "" ELSE base[Len(base)]

\* p.startsWith('.')
StartsWithDot(part) == Len(part) >= 2 /\ part[1] = ""

\* The tests of the fs.watch callback a change passes before it touches the
\* timer: a file name, a recognized extension, no ignored or hidden part.
Qualifies_ExtOnly(file) == file # << >> /\ ExtName(file) \in EXTS
Qualifies(file) ==
    /\ file # << >>
    /\ ExtName(file) \in EXTS
    /\ ~ \E i \in 1 .. Len(file) : file[i] \in IGNORE_DIRS \/ StartsWithDot(file[i])

\* The file names fs.watch reports: source files, files under an ignored
\* directory, hidden entries, files of other kinds, and no name at all.
QualifyingFiles == { <<<<"src">>, <<"index", "ts">>>>, <<<<"package", "json">>>> }
IgnoredSegmentFiles ==
    { <<<<"node_modules">>, <<"x">>, <<"index", "js">>>>, <<<<"dist">>, <<"index", "mjs">>>> }
HiddenFiles == { <<<<"", "eslintrc", "json">>>>, <<<<"", "vscode">>, <<"settings", "json">>>> }
UnknownExtFiles == { <<<<"README", "md">>>>, <<<<"src">>, <<"Makefile">>>> }
NoFile == << >>
ChangedFiles ==
    QualifyingFiles \cup IgnoredSegmentFiles \cup HiddenFiles \cup UnknownExtFiles \cup {NoFile}

\* The units watched, and the directory name start() skips.
WatchTargets == {"A", "B"}
SelfDirName == "napcat-plugin-debug"

\* What start() finds at watchPath: nothing, one unit's directory (it has a
\* package.json), or a directory of units.
DirEntries ==
    { [name |-> n, isDirectory |-> TRUE] : n \in WatchTargets \cup {SelfDirName} }
        \cup { [name |-> "notes", isDirectory |-> FALSE] }
Layouts ==
    { [exists |-> FALSE, hasPackageJson |-> FALSE, watchPath |-> <<"plugins">>, entries |-> {}] }
        \cup { [exists |-> TRUE, hasPackageJson |-> TRUE, watchPath |-> <<"plugins", n>>,
                entries |-> {}] : n \in {"A", SelfDirName} }
        \cup { [exists |-> TRUE, hasPackageJson |-> FALSE, watchPath |-> <<"plugins">>,
                entries |-> DirEntries] }

\* path.basename(watchPath)
BaseName(dirPath) == dirPath[Len(dirPath)]

\* The watchDir(name, dirPath) calls start() makes: name -> dirPath.
WatchDirCalls(layout) ==
    IF layout.hasPackageJson
    THEN IF BaseName(layout.watchPath) = SelfDirName THEN EmptyMap
         ELSE [n \in {BaseName(layout.watchPath)} |-> layout.watchPath]
    ELSE [n \in { d.name : d \in { e \in layout.entries :
                                      e.isDirectory /\ e.name # SelfDirName } }
             |-> Append(layout.watchPath, n)]

\* path.join(dirPath, file)
Join(dirPath, file) == [i \in 1 .. Len(dirPath) |-> <<dirPath[i]>>] \o file

MapGet(m, k) == IF k \in DOMAIN m THEN m[k] ELSE 0

\* The key of the timers map a target's timeout is kept under.
TimerKey_Shared(name) == "*"
TimerKey(name) == name

\* clearTimeout(t)
ClearTimer_Nothing(set, id) == set
ClearTimer(set, id) == { t \in set : t.id # id }

\* start(): nothing when active or when watchPath does not exist; else active
\* and watchDir for the unit or for every unit directory. fs.watch throws for
\* the targets in failing: a warning, and no watcher for them.
WatcherStart(layout, failing) ==
    /\ ~active
    /\ IF ~layout.exists
       THEN /\ failing = {}
            /\ UNCHANGED <<active, watchers>>
       ELSE LET made == WatchDirCalls(layout)
            IN /\ failing \subseteq DOMAIN made
               /\ active' = TRUE
               /\ watchers' = [n \in (DOMAIN watchers) \cup ((DOMAIN made) \ failing) |->
                                  IF n \in DOMAIN made THEN made[n] ELSE watchers[n]]
    /\ watchLast' = [op |-> "start", name |-> "", file |-> << >>, cleared |-> 0, events |-> 0]
    /\ UNCHANGED <<timers, armed, timerSeq, signals, reloads, burst, changes>>
    /\ WatchFrame

\* stop(): nothing when not active; else every timeout of the map is cleared,
\* every watcher closed and both maps emptied.
WatcherStop ==
    /\ active
    /\ active' = FALSE
    /\ armed' = { t \in armed : \A k \in DOMAIN timers : t.id # timers[k] }
    /\ timers' = EmptyMap
    /\ watchers' = EmptyMap
    /\ burst' = EmptyMap
    /\ watchLast' = [op |-> "stop", name |-> "", file |-> << >>, cleared |-> 0, events |-> 0]
    /\ UNCHANGED <<timerSeq, signals, reloads, changes>>
    /\ WatchFrame

\* The fs.watch callback of target name is called with file: a change that
\* passes the tests clears the target's timeout and sets a new one of 500 ms
\* that closes over this file.
WatcherChange(name, file) ==
    /\ name \in DOMAIN watchers
    /\ changes < MaxChanges
    /\ changes' = changes + 1
    /\ IF Qualifies(file)
       THEN LET t == MapGet(timers, TimerKey(name))
                id == timerSeq + 1
                changed == Join(watchers[name], file)
            IN /\ armed' = ClearTimer(armed, t) \cup {[id |-> id, name |-> name, path |-> changed]}
               /\ timers' = MapSet(timers, TimerKey(name), id)
               /\ timerSeq' = id
               /\ burst' = MapSet(burst, name,
                                  Append(IF name \in DOMAIN burst THEN burst[name] ELSE << >>,
                                         changed))
               /\ watchLast' = [op |-> "change", name |-> name, file |-> file,
                                cleared |-> IF \E a \in armed : a.id = t THEN t ELSE 0,
                                events |-> 0]
       ELSE /\ watchLast' = [op |-> "change", name |-> name, file |-> file, cleared |-> 0,
                             events |-> 0]
            /\ UNCHANGED <<armed, timers, timerSeq, burst>>
    /\ UNCHANGED <<active, watchers, signals, reloads>>
    /\ WatchFrame

\* onFileChange(dirName, filePath) up to its first await: rpc is set (the
\* watcher is created after the greeting), refreshMap calls getAllPlugins.
OnFileChange(dirName) == [name |-> dirName, pc |-> "getAllPlugins", id |-> None]

\* dirToId.get(dirName) ?? dirName: the id the host listed for the directory,
\* else the directory's name.
ReloadId(dirName, listed) == Some([dir |-> dirName, listed |-> listed])

\* The call onFileChange number k awaits settles. getAllPlugins (a rejection
\* is caught in refreshMap): reloadPlugin is called with the id. reloadPlugin:
\* the outcome is logged and onFileChange returns.
ReloadSettle(k, listed) ==
    /\ k \in 1 .. Len(reloads)
    /\ reloads[k].pc \in {"getAllPlugins", "reloadPlugin"}
    /\ IF reloads[k].pc = "getAllPlugins"
       THEN reloads' = [reloads EXCEPT ![k].pc = "reloadPlugin",
                                       ![k].id = ReloadId(reloads[k].name, listed)]
       ELSE /\ listed
            /\ reloads' = [reloads EXCEPT ![k].pc = "done"]
    /\ watchLast' = [op |-> "settle", name |-> reloads[k].name, file |-> << >>, cleared |-> 0,
                     events |-> 0]
    /\ UNCHANGED <<active, watchers, timers, armed, timerSeq, signals, burst, changes>>
    /\ WatchFrame

\* The timeout id fires, 500 ms after it was set and not cleared since:
\* timers.delete(name); onPluginChange(name, path.join(dirPath, file)), which
\* is the CLI's onFileChange.
WatcherFire(id) ==
    \E t \in armed :
        /\ t.id = id
        /\ armed' = armed \ {t}
        /\ timers' = MapDelete(timers, TimerKey(t.name))
        /\ signals' = Append(signals, [name |-> t.name, path |-> t.path])
        /\ reloads' = Append(reloads, OnFileChange(t.name))
        /\ burst' = MapDelete(burst, t.name)
        /\ watchLast' = [op |-> "fire", name |-> t.name, file |-> t.path, cleared |-> 0,
                         events |-> IF t.name \in DOMAIN burst THEN Len(burst[t.name]) ELSE 0]
        /\ UNCHANGED <<active, watchers, timerSeq, changes>>
        /\ WatchFrame

\* The watcher created, the other components as constructed.
WatchInit == ClientNew /\ RpcNew /\ HostNew(DEFAULT_CONFIG)

WatchNext ==
    \/ \E layout \in Layouts : \E failing \in {{}, {"B"}} : WatcherStart(layout, failing)
    \/ WatcherStop
    \/ \E name \in WatchTargets : \E file \in ChangedFiles : WatcherChange(name, file)
    \/ \E id \in 1 .. MaxChanges : WatcherFire(id)

SpecWatch == WatchInit /\ [][WatchNext]_vars

\* The event loop runs every timeout that was set and not cleared.
FairSpecWatch == SpecWatch /\ \A id \in 1 .. MaxChanges : WF_vars(WatcherFire(id))

\* The timeouts armed for target n.
ArmedFor(n) == { t \in armed : t.name = n }

\* C22: a burst of N >= 1 qualifying changes of one target, each within the
\* debounce window of the one before, produces exactly one signal: signals
\* are emitted only by a timeout firing, the one emitted carries the target's
\* name and the path of the last change of the burst, nothing stays armed for
\* the target after it, and a burst under way leads to its signal unless the
\* watcher is stopped.
C22_BurstOneSignal ==
    /\ [][signals' # signals =>
            LET n == watchLast'.name
            IN /\ watchLast'.op = "fire"
               /\ n \in DOMAIN burst /\ Len(burst[n]) >= 1
               /\ signals' = Append(signals, [name |-> n, path |-> burst[n][Len(burst[n])]])
               /\ n \notin DOMAIN burst'
               /\ { t \in armed' : t.name = n } = {}]_vars
    /\ \A n \in WatchTargets :
          (n \in DOMAIN burst) ~> ((watchLast.op = "fire" /\ watchLast.name = n) \/ ~active)

\* A burst of two changes or more has ended with its one signal.
C22_Witness ==
    /\ watchLast.op = "fire" /\ watchLast.events >= 2
    /\ Len(signals) = 1
    /\ signals[1].name = watchLast.name /\ signals[1].path = watchLast.file
    /\ ArmedFor(watchLast.name) = {}

\* C23: a target has at most one armed debounce timeout; a qualifying change
\* that finds one armed cancels it and arms a new one (a reset, never a second
\* timeout); a change under an ignored directory, of a hidden entry, of an
\* unrecognized extension or without a file name neither arms nor resets.
C23_OneTimerPerTarget ==
    /\ [](\A n \in WatchTargets : Cardinality(ArmedFor(n)) <= 1)
    /\ [][changes' # changes =>
            LET n == watchLast'.name
                f == watchLast'.file
            IN IF f \in QualifyingFiles
               THEN /\ timerSeq' = timerSeq + 1
                    /\ { t.id : t \in { a \in armed' : a.name = n } } = {timerSeq'}
                    /\ \A t \in ArmedFor(n) : t \notin armed'
               ELSE /\ f \in IgnoredSegmentFiles \cup HiddenFiles \cup UnknownExtFiles \cup {NoFile}
                    /\ armed' = armed /\ timers' = timers /\ timerSeq' = timerSeq]_vars

\* A qualifying change has reset the timeout that was armed for its target.
C23_Witness ==
    /\ watchLast.op = "change" /\ watchLast.cleared # 0
    /\ watchLast.file \in QualifyingFiles
    /\ Cardinality(ArmedFor(watchLast.name)) = 1
    /\ timerSeq >= 2

\* C24: with several units watched each has its own debounce timeout: a
\* change of one unit, and the firing of its timeout, leave every other unit's
\* armed timeout and timers entry as they were.
C24_TimersIndependent ==
    [][changes' # changes \/ signals' # signals =>
          \A m \in WatchTargets \ {watchLast'.name} :
              /\ { t \in armed' : t.name = m } = ArmedFor(m)
              /\ MapGet(timers', m) = MapGet(timers, m)]_vars

\* Two units have a timeout armed each, the second set while the first was armed.
C24_Witness ==
    /\ ArmedFor("A") # {} /\ ArmedFor("B") # {}
    /\ MapGet(timers, "A") # 0 /\ MapGet(timers, "B") # 0
    /\ MapGet(timers, "A") # MapGet(timers, "B")
    /\ watchLast.op = "change" /\ watchLast.file \in QualifyingFiles

\* ------------------------------------------------ the host plugin's state

\* The number of PluginState operations and file changes in a run.
MaxStateSteps == 4

\* { ...a, ...b }
Spread(a, b) == [k \in (DOMAIN a) \cup (DOMAIN b) |-> IF k \in DOMAIN b THEN b[k] ELSE a[k]]

\* Configurations handed to replaceConfig, and objects found in the file: the
\* defaults, another full record, and records with some of the fields.
CustomConfig == [port |-> 9000, host |-> "0.0.0.0", enableAuth |-> TRUE, authToken |-> "secret"]
PartialConfigs == { [port |-> 9000], [enableAuth |-> TRUE, authToken |-> "secret"] }
GivenConfigs == {DEFAULT_CONFIG, CustomConfig} \cup PartialConfigs

\* What can be at the configuration path.
ConfigFiles ==
    {NoConfigFile, [kind |-> "unparsable", value |-> EmptyMap]}
        \cup { [kind |-> "object", value |-> c] : c \in GivenConfigs }

\* loadConfig(configPath): the file's object spread over the defaults; when
\* the file does not exist, or reading or parsing it throws, _config is left
\* as it is.
LoadConfig(config, file) ==
    IF file.kind \in {"absent", "unparsable"} THEN config ELSE Spread(DEFAULT_CONFIG, file.value)

\* init(ctx): _ctx and _logger are set, then loadConfig(ctx.configPath).
PsInit ==
    /\ psSteps < MaxStateSteps
    /\ psSteps' = psSteps + 1
    /\ psCtx' = TRUE
    /\ psConfig' = LoadConfig(psConfig, configFile)
    /\ psLast' = [op |-> "init", file |-> configFile]
    /\ UNCHANGED configFile
    /\ StateFrame

\* cleanup(): _ctx = null, _logger = null.
PsCleanup ==
    /\ psSteps < MaxStateSteps
    /\ psSteps' = psSteps + 1
    /\ psCtx' = FALSE
    /\ psLast' = [op |-> "cleanup", file |-> configFile]
    /\ UNCHANGED <<psConfig, configFile>>
    /\ StateFrame

\* replaceConfig(config): _config = { ...DEFAULT_CONFIG, ...config }, then
\* saveConfig(): nothing without _ctx; else the file is written with the whole
\* record, or the write throws (written is false) and a warning is logged.
PsReplaceConfig(config, written) ==
    /\ psSteps < MaxStateSteps
    /\ psSteps' = psSteps + 1
    /\ psConfig' = Spread(DEFAULT_CONFIG, config)
    /\ configFile' = IF psCtx /\ written THEN [kind |-> "object", value |-> psConfig']
                     ELSE configFile
    /\ psLast' = [op |-> "replaceConfig", file |-> configFile']
    /\ UNCHANGED psCtx
    /\ StateFrame

\* The file is removed, damaged or edited from outside.
ConfigFileChanged(file) ==
    /\ psSteps < MaxStateSteps
    /\ psSteps' = psSteps + 1
    /\ file # configFile
    /\ configFile' = file
    /\ psLast' = [op |-> "file", file |-> file]
    /\ UNCHANGED <<psCtx, psConfig>>
    /\ StateFrame

\* The singleton constructed, with anything at the configuration path.
StateInit ==
    /\ RpcNew /\ HostNew(DEFAULT_CONFIG)
    /\ client = "vite" /\ PluginNew(DefaultOptions) /\ CliNew(FALSE) /\ registered = FALSE
    /\ WatcherNew /\ WebNew(<< >>, {}, {}) /\ JobsNew({}) /\ LifeNew
    /\ \E file \in ConfigFiles : PluginStateNew(file)

StateNext ==
    \/ PsInit
    \/ PsCleanup
    \/ \E config \in GivenConfigs : \E written \in BOOLEAN : PsReplaceConfig(config, written)
    \/ \E file \in ConfigFiles : ConfigFileChanged(file)

SpecState == StateInit /\ [][StateNext]_vars

\* C25: after init, when the configuration file is absent or unparsable the
\* effective configuration is the fixed defaults, also when an earlier
\* replaceConfig had set another one; and after replaceConfig the effective
\* configuration is a whole record of the four fields.
C25_DefaultsWhenAbsent ==
    /\ psLast.op = "init" /\ psLast.file.kind \in {"absent", "unparsable"}
          => psConfig = DEFAULT_CONFIG
    /\ psLast.op = "replaceConfig" => DOMAIN psConfig = DOMAIN DEFAULT_CONFIG

\* ------------------------------------------------ clients: exit status

\* The CLI ended cleanly: the user quit, or the socket closed with the
\* normal-closure code outside a finished one-shot deploy.
CleanQuit == cli.quit \/ (cli.code = 1000 /\ ~(cli.at = "deploy" /\ deploy.pc = "done"))

\* The deploy transferred the files: the local copy was made, or removeDir and
\* writeFiles were both called and neither was rejected.
Transferred ==
    \/ deploy.fs = "copied"
    \/ /\ \E k \in 1 .. Len(deploy.calls) : deploy.calls[k].method = "writeFiles"
       /\ deploy.rejected \cap {"removeDir", "writeFiles"} = {}

\* C26: the CLI exits with 0 only on a clean quit or after a one-shot deploy
\* that succeeded, the files transferred and the unit activated; a one-shot
\* deploy whose precondition, transfer or activation failed or timed out
\* exits non-zero.
C26_ExitZeroOnlyOnSuccess ==
    client = "cli" /\ cli.exit = "0" =>
        \/ CleanQuit
        \/ /\ cli.at = "deploy" /\ deploy.pc = "done"
           /\ Transferred
           /\ deploy.report = "ok"

\* ------------------------------------------------ the plugin's WebUI artifact sets

\* The number of WebUI artifact sets configured.
MaxSets == 2

\* A file of a directory tree: the subdirectory it is in ("" is the root) and
\* its name.
File(dir, name) == [dir |-> dir, name |-> name]

\* fs.rmSync(dir, { recursive: true, force: true }) under the unit's directory.
RmSync(files, dir) == IF dir = "" THEN {} ELSE { f \in files : f.dir # dir }

\* copyDirRecursive(src, dest): every file of the tree src is written under
\* dest, over a file of the same name; what else is at dest stays.
CopyDirRecursive(files, dir, src) ==
    files \cup { File(IF dir = "" THEN f.dir ELSE dir, f.name) : f \in src }

\* How a set goes: its build command fails, its output directory is missing,
\* the copy throws, or all of it works.
SetOutcomes == {"ok", "buildFails", "noDist", "copyThrows"}

\* wc.targetDir || 'webui'
TargetDirs == {"webui", "admin"}

SetConfigs == { [targetDir |-> t, outcome |-> o] : t \in TargetDirs, o \in SetOutcomes }

\* webuiConfigs
SetLists == UNION { [1 .. n -> SetConfigs] : n \in 0 .. MaxSets }

\* The files of set i's output directory.
SetFiles(i) == { File("", <<"asset", i>>) }

\* The primary output: the bundle and package.json, and perhaps a directory
\* named as a set's target.
PrimaryOutputs ==
    { { File("", <<"index">>), File("", <<"package">>) },
      { File("", <<"index">>), File("", <<"package">>), File("webui", <<"legacy">>) } }

\* What the unit's directory holds before: nothing, or an earlier deploy.
EarlierDeploys ==
    { {}, { File("", <<"index">>), File("", <<"old">>), File("webui", <<"old">>) } }

\* What is done to a set's destination before its output is copied there:
\* deployWebuiOnly removes it, deployAndReload copies over what is there.
BeforeSetCopy(fn, files, dir) == IF fn = "deployWebuiOnly" THEN RmSync(files, dir) ELSE files

\* deployAndReload(distDir) with the connection ready and the manifest
\* accepted: the unit's directory is removed and the primary output copied
\* (the copy throws when ~copied: logErr and return), then the loop starts.
WebDeployAndReload(copied) ==
    /\ wFn = "none"
    /\ wFn' = "deployAndReload"
    /\ IF copied
       THEN /\ wDest' = CopyDirRecursive(RmSync(wDest, ""), "", wPrimary)
            /\ wAt' = 1
            /\ UNCHANGED wReload
       ELSE /\ wDest' = RmSync(wDest, "")
            /\ wReload' = "returned"
            /\ UNCHANGED wAt
    /\ UNCHANGED <<wSets, wPrimary, wCopied>>
    /\ WebFrame

\* deployWebuiOnly() with the connection ready and the manifest accepted.
WebDeployWebuiOnly ==
    /\ wFn = "none"
    /\ wFn' = "deployWebuiOnly"
    /\ wAt' = 1
    /\ UNCHANGED <<wSets, wPrimary, wDest, wCopied, wReload>>
    /\ WebFrame

\* One turn of the loop over webuiConfigs: the build command (continue when
\* it fails), the output directory (continue when missing), the copy (its
\* exception is caught and logged).
WebSet ==
    /\ wFn # "none" /\ wAt \in 1 .. Len(wSets)
    /\ LET wc == wSets[wAt]
       IN CASE wc.outcome \in {"buildFails", "noDist"} ->
                 UNCHANGED <<wDest, wCopied>>
            [] wc.outcome = "copyThrows" ->
                 /\ wDest' = BeforeSetCopy(wFn, wDest, wc.targetDir)
                 /\ UNCHANGED wCopied
            [] OTHER ->
                 /\ wDest' = CopyDirRecursive(BeforeSetCopy(wFn, wDest, wc.targetDir),
                                              wc.targetDir, SetFiles(wAt))
                 /\ wCopied' = wCopied \cup {wAt}
    /\ wAt' = wAt + 1
    /\ UNCHANGED <<wFn, wSets, wPrimary, wReload>>
    /\ WebFrame

\* After the loop: deployAndReload calls reloadPlugin; deployWebuiOnly calls
\* it when some set was copied (hasChanges).
WebReload ==
    /\ wFn # "none" /\ wAt = Len(wSets) + 1 /\ wReload = "none"
    /\ wReload' = IF wFn = "deployAndReload" \/ wCopied # {} THEN "issued" ELSE "skipped"
    /\ UNCHANGED <<wFn, wSets, wPrimary, wDest, wAt, wCopied>>
    /\ WebFrame

\* The plugin configured with any sets, over any primary output and any
\* earlier deploy.
WebInit ==
    /\ RpcNew /\ HostNew(DEFAULT_CONFIG)
    /\ client = "vite" /\ PluginNew(DefaultOptions) /\ CliNew(FALSE) /\ registered = FALSE
    /\ WatcherNew /\ PluginStateNew(NoConfigFile) /\ JobsNew({}) /\ LifeNew
    /\ \E sets \in SetLists : \E primary \in PrimaryOutputs : \E dest \in EarlierDeploys :
          WebNew(sets, primary, dest)

WebNext ==
    \/ \E copied \in BOOLEAN : WebDeployAndReload(copied)
    \/ WebDeployWebuiOnly
    \/ WebSet
    \/ WebReload

SpecWebui == WebInit /\ [][WebNext]_vars

\* The files the unit's directory holds under dir.
FilesUnder(files, dir) == { f \in files : f.dir = dir }

\* Past the loop, every set whose build and copy work has been copied,
\* whatever happened to the sets before it.
RemainingSetsCopied ==
    wReload \in {"issued", "skipped"} =>
        \A i \in 1 .. Len(wSets) : wSets[i].outcome = "ok" => i \in wCopied

\* A deployAndReload that got past the primary copy has issued reloadPlugin.
PrimaryActivationIssued ==
    wFn = "deployAndReload" /\ wReload \in {"issued", "skipped"} => wReload = "issued"

\* C27: a build failure, a missing output directory or a copy failure of one
\* WebUI set prevents neither the remaining sets from being copied nor the
\* reloadPlugin of the primary deploy; and each set is copied as the primary
\* output is, replace then copy: after a set's copy its target directory
\* holds that set's files and nothing else.
C27_WebuiSetsIndependent ==
    /\ []RemainingSetsCopied
    /\ []PrimaryActivationIssued
    /\ [][\A i \in wCopied' \ wCopied :
              FilesUnder(wDest', wSets[i].targetDir)
                  = { File(wSets[i].targetDir, f.name) : f \in SetFiles(i) }]_vars

\* ------------------------------------------- client endpoint: correlation by id

\* C28: with several Calls in flight and their responses arriving in any
\* order, a Call settled by a response is settled by the response that carries
\* its own id, with that response's result or error, and a Call that no
\* response with its id has reached is not settled by a response.
C28_SettledByOwnId ==
    \A h \in 1 .. Len(calls) :
        LET c == calls[h]
        IN /\ c.byResp >= 1 =>
                /\ c.from # None
                /\ c.from[1].id = Some(c.id)
                /\ c.id = h
                /\ IF c.from[1].error # None
                   THEN c.state = "rejected" /\ c.value = NewError(c.from[1].error[1].message)
                   ELSE c.state = "resolved" /\ c.value = ResultValue(c.from[1].result)
           /\ c.from # None => c.byResp >= 1

\* The second Call was answered with an error while the first, made before
\* it, is still in flight.
C28_Witness ==
    /\ Len(calls) >= 2
    /\ calls[1].state = "pending"
    /\ calls[2].byResp = 1 /\ calls[2].state = "rejected"
    /\ calls[2].from[1].id = Some(2)

\* ------------------------------------------------ clients: the greeting

\* Where a connection is in its lifecycle.
Phase(readyState, greeted) ==
    CASE readyState = "CONNECTING" -> "Connecting"
      [] readyState = "OPEN" /\ ~greeted -> "AwaitingGreeting"
      [] readyState = "OPEN" /\ greeted -> "Ready"
      [] OTHER -> "Disconnected"

\* The phases in their order.
PhaseRank(phase) ==
    CASE phase = "Connecting" -> 1
      [] phase = "AwaitingGreeting" -> 2
      [] phase = "Ready" -> 3
      [] OTHER -> 4

SocketPhase(sock) == Phase(sock.readyState, sock.info # "none")
CliPhase(c) == Phase(c.readyState, c.at # "none")

\* C29: no request is sent before the greeting: the RPC endpoint exists, and
\* getDebugInfo has been issued, only on a connection on which welcome was
\* received; a connection goes through Connecting, AwaitingGreeting and Ready
\* in that order; and every other request (the probe, the calls of a deploy)
\* is issued after getDebugInfo has settled on the connection.
C29_GreetingBeforeRequests ==
    /\ [](/\ \A s \in 1 .. Len(sockets) :
               sockets[s].info # "none" => sockets[s].greeted
          /\ rpc # 0 => sockets[rpc].greeted /\ sockets[rpc].info # "none"
          /\ cli.at # "none" => cli.greeted)
    /\ [][/\ \A s \in 1 .. Len(sockets) :
               /\ PhaseRank(SocketPhase(sockets'[s])) >= PhaseRank(SocketPhase(sockets[s]))
               /\ SocketPhase(sockets'[s]) = "Ready" /\ SocketPhase(sockets[s]) # "Ready"
                     => SocketPhase(sockets[s]) = "AwaitingGreeting"
          /\ \A s \in (Len(sockets) + 1) .. Len(sockets') :
               SocketPhase(sockets'[s]) = "Connecting"
          /\ PhaseRank(CliPhase(cli')) >= PhaseRank(CliPhase(cli))
          /\ CliPhase(cli') = "Ready" /\ CliPhase(cli) # "Ready"
                => CliPhase(cli) = "AwaitingGreeting"
          /\ cli'.at = "probe" /\ cli.at # "probe" => cli.at = "getDebugInfo"
          /\ DeployIssues =>
                IF client = "vite" THEN sockets'[rpc'].info = "done"
                ELSE cli.at \in {"probe", "deploy", "repl"}]_vars

\* The plugin's connection received the welcome and getDebugInfo was issued
\* on it.
C29_Witness ==
    /\ client = "vite" /\ rpc # 0
    /\ sockets[rpc].readyState = "OPEN"
    /\ sockets[rpc].greeted /\ sockets[rpc].info = "pending"

\* ------------------------------------------------ clients: order of the deploy steps

\* The place of a call among the steps of a deploy.
StepRank(method) ==
    CASE method = "removeDir" -> 1
      [] method = "writeFiles" -> 2
      [] method = "reloadPlugin" -> 3
      [] method = "loadDirectoryPlugin" -> 4
      [] method = "setPluginStatus" -> 5
      [] method = "loadPluginById" -> 6

\* The transfer step failed: the local copy threw, or removeDir or writeFiles
\* was rejected or timed out.
TransferFailed ==
    deploy.fs = "failed" \/ deploy.rejected \cap {"removeDir", "writeFiles"} # {}

\* C30: the steps of a deploy are issued in their order; an activation call
\* (reloadPlugin, loadDirectoryPlugin, setPluginStatus, loadPluginById) is
\* issued only after the transfer completed successfully; and a deploy whose
\* transfer failed has ended with no activation call and a failure reported.
C30_TransferBeforeActivation ==
    /\ \A j \in 1 .. Len(deploy.calls) : \A k \in 1 .. Len(deploy.calls) :
          j < k => StepRank(deploy.calls[j].method) < StepRank(deploy.calls[k].method)
    /\ ActivationCalls # << >> => Transferred /\ ~TransferFailed
    /\ TransferFailed =>
          /\ ActivationCalls = << >>
          /\ deploy.pc = "done" /\ deploy.report = "err"
          /\ client = "cli" => deploy.returned = "false"

\* A CLI deploy over the remote transfer whose writeFiles was rejected has
\* ended after its two transfer calls.
C30_Witness ==
    /\ client = "cli" /\ deploy.pc = "done"
    /\ "writeFiles" \in deploy.rejected /\ Len(deploy.calls) = 2
    /\ deploy.report = "err" /\ deploy.returned = "false"


\* ------------------------------------------------ the CLI's transfer strategy

\* The calls of the deploy that are made with method.
CallsOf(d, method) == { i \in 1 .. Len(d.calls) : d.calls[i].method = method }

\* The deploy goes by remote transfer: its first call is removeDir of the
\* unit, writeFiles is called once and only after removeDir resolved, and no
\* local file is touched.
RemoteStrategy(d) ==
    /\ d.fs = "untouched"
    /\ d.manifest = "ok" =>
          /\ Len(d.calls) >= 1
          /\ d.calls[1] = [method |-> "removeDir", params |-> << PluginName >>]
    /\ CallsOf(d, "removeDir") \subseteq {1}
    /\ CallsOf(d, "writeFiles") \subseteq {2}
    /\ CallsOf(d, "writeFiles") # {} => "removeDir" \notin d.rejected

\* The deploy goes by local copy: neither removeDir nor writeFiles is called,
\* and past the manifest the copy was made (or it threw).
LocalStrategy(d) ==
    /\ CallsOf(d, "removeDir") = {} /\ CallsOf(d, "writeFiles") = {}
    /\ d.manifest = "ok" => d.fs \in {"copied", "failed"}

\* C31: the CLI's transfer strategy is fixed by supportsRemoteTransfer, which
\* the one probe made after getDebugInfo sets: a deploy with the flag set
\* calls removeDir(unit) and, only after that resolved, writeFiles once, and
\* touches no local file; a deploy with the flag clear calls neither and
\* copies on the local filesystem. The flag changes only when the probe
\* settles, the probe is made once, and a failed probe leaves the socket and
\* the process as they are.
C31_StrategyFixedByProbe ==
    /\ [](client = "cli" /\ deploy.pc # "idle" =>
            IF cli.supportsRemoteTransfer THEN RemoteStrategy(deploy) ELSE LocalStrategy(deploy))
    /\ [][client = "cli" =>
            /\ cli'.supportsRemoteTransfer # cli.supportsRemoteTransfer => cli.at = "probe"
            /\ (cli'.at = "probe" /\ cli.at # "probe") => cli.at = "getDebugInfo"
            /\ (cli.at = "probe" /\ cli'.at # "probe" /\ ~cli'.supportsRemoteTransfer
                   /\ deploy'.pc # "done") =>
                  cli'.readyState = cli.readyState /\ cli'.exit = "running"]_vars

\* A deploy of the REPL with the flag set has called removeDir and writeFiles
\* and gone on to reloadPlugin.
C31_Witness ==
    /\ client = "cli" /\ cli.at = "repl" /\ cli.supportsRemoteTransfer
    /\ Len(deploy.calls) >= 3
    /\ deploy.calls[2].method = "writeFiles"
    /\ deploy.calls[3].method = "reloadPlugin"


\* ------------------------------------------------ deploys side by side

\* The number of deploys started.
MaxJobs == 2

\* path.join(remotePluginPath, pluginName), from the managed root.
UnitDir == << PluginName >>

\* path.join(destDir, wc.targetDir || 'webui')
WebuiDir == UnitDir \o << "webui" >>

\* The file p is inside the directory dir.
IsUnder(p, dir) == Len(p) > Len(dir) /\ SubSeq(p, 1, Len(dir)) = dir

\* if (fs.existsSync(dir)) fs.rmSync(dir, { recursive: true, force: true })
RmTree_Nothing(files, dir) == files
RmTree(files, dir) == { p \in files : ~IsUnder(p, dir) }

\* copyDirRecursive(src, dest): each file of src, by its path from src, is
\* written at the same path from dest; what else is at dest stays.
CopyTree(files, src, dest) == files \cup { dest \o r : r \in src }

\* collectFiles(dir, prefix): each file of dir by the path prefix/relPath.
CollectFiles_NoPrefix(src, prefix) == src
CollectFiles(src, prefix) ==
    { (IF prefix = "" THEN << >> ELSE << prefix >>) \o r : r \in src }

\* The host's removeDir(path): the directory path under the managed root is
\* removed with all it holds.
HostRemoveDir(files, name) == RmTree(files, << name >>)

\* The host's writeFiles(fileList): each file is written at its path under
\* the managed root.
HostWriteFiles(files, list) == files \cup list

\* The local transfer of deployPlugin and deployAndReload: the unit's
\* directory is removed and the build output copied there.
LocalTransfer(files, output) == CopyTree(RmTree(files, UnitDir), output, UnitDir)

\* The WebUI set copied by deployAndReload (over what is there) and by
\* deployWebuiOnly (after removing what is there); no set is copied when
\* webui is empty.
CopyWebui(fn, files, webui) ==
    IF webui = {} THEN files
    ELSE CopyTree(IF fn = "deployWebuiOnly" THEN RmTree(files, WebuiDir) ELSE files,
                  webui, WebuiDir)

\* deployWebuiOnly() up to its await or return: the checks, the loop over the
\* sets (copied: some set was copied), and reloadPlugin if (hasChanges).
WebuiOnlyEnter(m, copied, connected) ==
    IF ~connected THEN DeployReturn([DeployIdle EXCEPT !.manifest = m], "err", "void")
    ELSE IF ~ManifestAccepted(m)
    THEN DeployReturn([DeployIdle EXCEPT !.manifest = m],
                      IF m \in {"nodist", "missing"} THEN "err" ELSE "none", "void")
    ELSE IF copied
    THEN DeployAwait([DeployIdle EXCEPT !.manifest = m, !.fs = "copied"], "reloadPlugin")
    ELSE DeployReturn([DeployIdle EXCEPT !.manifest = m], "none", "void")

\* deployWebuiOnly() resumed with the reply to reloadPlugin: logHmr, or the
\* catch's logErr.
WebuiOnlySettled(d, reply) ==
    IF reply \in {"error", "timeout"}
    THEN DeployReturn([d EXCEPT !.rejected = @ \cup {d.pc}, !.reply = reply], "err", "void")
    ELSE DeployReturn([d EXCEPT !.reply = reply], "ok", "void")

\* A build output, each file by its path from the output directory.
BuildOutputs ==
    { { << "index" >>, << "package" >> },
      { << "index" >>, << "package" >>, << "lib", "util" >> } }

\* The output of the WebUI set: none configured, or its files.
WebuiOutputs == { {}, { << "asset" >> } }

\* Another unit under the managed root.
OtherUnits == { << "other", "index" >> }

\* What the managed root holds before: the other unit, and perhaps an earlier
\* deploy of this one.
EarlierManaged ==
    { OtherUnits,
      OtherUnits \cup { UnitDir \o << "index" >>, UnitDir \o << "old" >>,
                        WebuiDir \o << "old" >> } }

\* dist/package.json as a deploy finds it: readable with a name, or missing.
JobManifests == {"ok", "missing"}

\* The functions that deploy: the CLI's deployPlugin, the plugin's
\* deployAndReload (from writeBundle) and deployWebuiOnly (from the debounce
\* timer of the WebUI watchers).
DeployFunctions ==
    IF client = "cli" THEN {"deployPlugin"} ELSE {"deployAndReload", "deployWebuiOnly"}

\* The job is suspended at a call.
JobPending(job) == job.d.pc \notin {"idle", "done"}

\* The unit's directory changed under the jobs that have had it removed and
\* not yet written: j is the job that changed it (0: a job just started).
MarkRaced(js, j, changed) ==
    [k \in 1 .. Len(js) |->
        IF changed /\ k # j /\ js[k].d.pc = "writeFiles"
        THEN [js[k] EXCEPT !.raced = TRUE] ELSE js[k]]

\* What a deploy function does up to its first await or return, on the files
\* of the managed root. A local copy that throws has removed the unit's
\* directory (partial) or nothing.
EnterFiles(fn, d, files, output, webui, partial) ==
    CASE fn = "deployWebuiOnly" -> IF d.fs = "copied" THEN CopyWebui(fn, files, webui) ELSE files
      [] fn # "deployWebuiOnly" /\ d.fs = "copied" ->
            CopyWebui(fn, LocalTransfer(files, output), webui)
      [] fn # "deployWebuiOnly" /\ d.fs = "failed" ->
            IF partial THEN RmTree(files, UnitDir) ELSE files
      [] OTHER -> files

\* A deploy starts while others may be suspended: the REPL's deploy command
\* (the line handler runs for every line), writeBundle (Vite awaits the hook,
\* so one at a time), or the debounce timer's deployWebuiOnly.
JobStart_Exclusive(fn, m, fsOk, output, webui, partial) ==
    /\ Len(jobs) < MaxJobs
    /\ \A k \in 1 .. Len(jobs) : ~JobPending(jobs[k])
    /\ fn \in DeployFunctions
    /\ client = "cli" => cli.exit = "running" /\ cli.at = "repl" /\ cli.remotePluginPath
    /\ LET connected == client = "cli" \/ (RpcConnected /\ remotePluginPath)
           d == IF fn = "deployWebuiOnly"
                THEN WebuiOnlyEnter(m, webui # {} /\ fsOk, connected)
                ELSE DeployEnter(m, cli.supportsRemoteTransfer, fsOk, connected)
           files == EnterFiles(fn, d, managed, output, IF client = "cli" THEN {} ELSE webui,
                               partial)
       IN /\ managed' = files
          /\ jobs' = Append(MarkRaced(jobs, 0, files # managed),
                            [fn |-> fn, d |-> d, output |-> output,
                             webui |-> IF client = "cli" THEN {} ELSE webui, raced |-> FALSE])
    /\ UNCHANGED clientVars
    /\ JobFrame
JobStart(fn, m, fsOk, output, webui, partial) ==
    /\ Len(jobs) < MaxJobs
    /\ fn \in DeployFunctions
    /\ fn = "deployAndReload" =>
          \A k \in 1 .. Len(jobs) : jobs[k].fn = "deployAndReload" => ~JobPending(jobs[k])
    /\ client = "cli" => cli.exit = "running" /\ cli.at = "repl" /\ cli.remotePluginPath
    /\ LET connected == client = "cli" \/ (RpcConnected /\ remotePluginPath)
           d == IF fn = "deployWebuiOnly"
                THEN WebuiOnlyEnter(m, webui # {} /\ fsOk, connected)
                ELSE DeployEnter(m, cli.supportsRemoteTransfer, fsOk, connected)
           files == EnterFiles(fn, d, managed, output, IF client = "cli" THEN {} ELSE webui,
                               partial)
       IN /\ managed' = files
          /\ jobs' = Append(MarkRaced(jobs, 0, files # managed),
                            [fn |-> fn, d |-> d, output |-> output,
                             webui |-> IF client = "cli" THEN {} ELSE webui, raced |-> FALSE])
    /\ UNCHANGED clientVars
    /\ JobFrame

\* What the host has done to the managed root when a call of job settles:
\* removeDir and writeFiles are carried out when they resolve, not when they
\* are answered with an error; a call that timed out was carried out or not.
SettleFiles(job, files, applied) ==
    CASE job.d.pc = "removeDir" /\ applied -> HostRemoveDir(files, PluginName)
      [] job.d.pc = "writeFiles" /\ applied ->
            HostWriteFiles(files, CollectFiles(job.output, PluginName))
      [] OTHER -> files

\* How a call of a job can end: as a call of any deploy; of an activation
\* call, whose timeout rejects it as an error response does, the error
\* response stands for both.
JobReplies(method) ==
    IF method \in {"removeDir", "writeFiles"} THEN Replies(method)
    ELSE Replies(method) \ {"timeout"}

\* A call of job j settles and the job runs on to its next await or its end.
JobSettle(j, reply, applied) ==
    /\ j \in 1 .. Len(jobs) /\ JobPending(jobs[j])
    /\ reply \in JobReplies(jobs[j].d.pc)
    /\ (reply = "timeout" /\ jobs[j].d.pc \in {"removeDir", "writeFiles"})
          \/ applied = (reply \notin {"error", "timeout"})
    /\ LET job == jobs[j]
           d == IF job.fn = "deployWebuiOnly" THEN WebuiOnlySettled(job.d, reply)
                ELSE DeploySettled(job.d, reply, TRUE)
           files == SettleFiles(job, managed, applied)
       IN /\ managed' = files
          /\ jobs' = [MarkRaced(jobs, j, files # managed) EXCEPT ![j].d = d]
    /\ registered' = (registered \/ (jobs[j].d.pc = "loadDirectoryPlugin" /\ reply = "true"))
    /\ UNCHANGED <<client, options, rpc, remotePluginPath, connecting, isFirstBuild, sockets,
                   hook, build, deploy, cli, deploys>>
    /\ JobFrame

\* The files of the managed root inside and outside the unit's directory.
InUnit(files) == { p \in files : IsUnder(p, UnitDir) }
OutsideUnit(files) == files \ InUnit(files)

\* The socket of a plugin that is Ready: open, greeted, getDebugInfo answered.
ReadySocket ==
    [readyState |-> "OPEN", timeout |-> "cleared", resolved |-> "true", info |-> "done",
     code |-> 0, greeted |-> TRUE]

\* The client Ready (the plugin in watch mode between two builds, the CLI at
\* its REPL with the flag the probe gave), over any earlier content of the
\* managed root; the host has the unit registered when it was deployed before.
JobsInit ==
    /\ RpcNew /\ HostNew(DEFAULT_CONFIG)
    /\ WatcherNew /\ PluginStateNew(NoConfigFile) /\ WebNew(<< >>, {}, {})
    /\ client \in {"vite", "cli"}
    /\ options = [autoConnect |-> TRUE, watch |-> TRUE]
    /\ connecting = FALSE
    /\ isFirstBuild = FALSE
    /\ hook = [name |-> "idle", ws |-> 0]
    /\ build = [n |-> 1, next |-> "buildStart", attempts |-> 0]
    /\ deploy = DeployIdle
    /\ deploys = 0
    /\ IF client = "vite"
       THEN /\ rpc = 1 /\ remotePluginPath = TRUE /\ sockets = << ReadySocket >>
            /\ CliNew(FALSE)
       ELSE /\ rpc = 0 /\ remotePluginPath = FALSE /\ sockets = << >>
            /\ \E transfer \in BOOLEAN :
                  cli = [readyState |-> "OPEN", at |-> "repl", remotePluginPath |-> TRUE,
                         supportsRemoteTransfer |-> transfer, deployMode |-> FALSE,
                         exit |-> "running", code |-> 0, quit |-> FALSE, greeted |-> TRUE]
    /\ \E files \in EarlierManaged : JobsNew(files) /\ registered = (InUnit(files) # {})
    /\ LifeNew

JobsNext ==
    \/ \E fn \in {"deployPlugin", "deployAndReload", "deployWebuiOnly"} :
       \E m \in JobManifests : \E fsOk \in BOOLEAN : \E output \in BuildOutputs :
       \E webui \in WebuiOutputs : \E partial \in BOOLEAN :
            JobStart(fn, m, fsOk, output, webui, partial)
    \/ \E j \in 1 .. Len(jobs) : \E reply \in {"true", "false", "error", "timeout"} :
       \E applied \in BOOLEAN : JobSettle(j, reply, applied)

SpecJobs == JobsInit /\ [][JobsNext]_vars

\* The build output of a job as it lies in the unit's directory: the primary
\* output, and the WebUI set's output under webui/.
Built(job) ==
    { UnitDir \o r : r \in job.output } \cup { WebuiDir \o r : r \in job.webui }

\* The job has got past its transfer step: it has called reloadPlugin.
TransferDone(job) ==
    /\ job.fn # "deployWebuiOnly"
    /\ \E i \in 1 .. Len(job.d.calls) : job.d.calls[i].method = "reloadPlugin"

CanStart(fn) ==
    ENABLED (\E m \in JobManifests : \E fsOk \in BOOLEAN : \E output \in BuildOutputs :
             \E webui \in WebuiOutputs : \E partial \in BOOLEAN :
                 JobStart(fn, m, fsOk, output, webui, partial))

\* A call of job j can settle.
CanSettle(j) ==
    ENABLED (\E reply \in {"true", "false", "error", "timeout"} : \E applied \in BOOLEAN :
                 JobSettle(j, reply, applied))

\* C33: deploys of the same unit are not mutually excluded: whatever calls of
\* earlier deploys are pending, the REPL's deploy command and the debounced
\* deployWebuiOnly can start a deploy, and so can writeBundle unless a
\* writeBundle is still running; and each pending call of each deploy can
\* settle whatever the other deploys are waiting for.
C33_DeploysNotExcluded ==
    /\ Len(jobs) < MaxJobs =>
          /\ client = "cli" => CanStart("deployPlugin")
          /\ client = "vite" => CanStart("deployWebuiOnly")
          /\ (client = "vite" /\ \A k \in 1 .. Len(jobs) :
                                    jobs[k].fn = "deployAndReload" => ~JobPending(jobs[k]))
                => CanStart("deployAndReload")
    /\ \A j \in 1 .. Len(jobs) : JobPending(jobs[j]) => CanSettle(j)

\* Two deploys of the CLI interleaved on the unit's directory: the second
\* one's removeDir and writeFiles were carried out between the first one's
\* removeDir and writeFiles, and both still have a call pending.
C33_Witness ==
    /\ Len(jobs) = 2
    /\ jobs[1].raced /\ jobs[1].d.pc = "writeFiles"
    /\ jobs[2].d.pc = "reloadPlugin"


\* ------------------------------------------------ host: the greeting comes first

\* The frames sent on connection c before its greeting.
BeforeGreeting(c) ==
    { k \in 1 .. Len(outbox[c]) :
        \A g \in 1 .. Len(outbox[c]) : outbox[c][g].method = "welcome" => k < g }

MaxHooks == 2

\* new DebugServer(ctx, config): wss = null; the port is config.port.
ServerNew(config) == [wss |-> "null", port |-> config.port]

\* A socket server is listening on the port.
PortTaken(srvs, port) ==
    \E s \in 1 .. Len(srvs) : srvs[s].wss = "listening" /\ srvs[s].port = port

\* start() after await import('ws'): this.wss = new WebSocketServer({ port,
\* host }). On a port another server listens on, the new one emits 'error'
\* (logged by wss.on('error')) and does not listen.
Listen(srvs, s) ==
    [srvs EXCEPT ![s].wss = IF PortTaken(srvs, srvs[s].port) THEN "failed" ELSE "listening"]

\* if (!this.wss) return;
StopReturnsEarly(srvs, s) == s = 0 \/ srvs[s].wss = "null"

\* stop() up to its await: the clients are closed and this.wss.close(cb)
\* called, which ends the listening; debugServer?.stop() does nothing on null.
StopBegins(srvs, s) ==
    IF StopReturnsEarly(srvs, s) THEN srvs ELSE [srvs EXCEPT ![s].wss = "closing"]

\* stop() after its await: this.wss = null.
StopEnds(srvs, h) ==
    IF h.early THEN srvs ELSE [srvs EXCEPT ![h.srv].wss = "null"]

\* A lifecycle call suspended at an await: of stop() (early: stop returned at
\* its first line) or of start().
Hook(fn, pc, s, early) == [fn |-> fn, pc |-> pc, srv |-> s, early |-> early]

\* plugin_init has returned.
Initialized == Len(hooks) >= 1 /\ hooks[1].pc = "done"

\* plugin_cleanup has been called.
CleanupCalled == \E h \in 1 .. Len(hooks) : hooks[h].fn = "plugin_cleanup"

\* plugin_init(ctx) up to the await in start(): pluginState.init(ctx),
\* debugServer = new DebugServer(ctx, pluginState.config), start().
PluginInit ==
    /\ hooks = << >>
    /\ psCtx' = TRUE
    /\ psConfig' = LoadConfig(psConfig, configFile)
    /\ servers' = Append(servers, ServerNew(psConfig'))
    /\ debugServer' = Len(servers) + 1
    /\ hooks' = Append(hooks, Hook("plugin_init", "import", Len(servers) + 1, FALSE))
    /\ UNCHANGED <<configFile, psLast, psSteps>>
    /\ UNCHANGED <<rpcVars, hostVars, clientVars, watchVars, webVars, jobVars>>

\* plugin_set_config(ctx, config) up to its first await:
\* pluginState.replaceConfig(config), then await debugServer?.stop(). The host
\* calls it on a plugin that is initialized and not being unloaded.
PluginSetConfig(config, written) ==
    /\ Initialized /\ ~CleanupCalled
    /\ Len(hooks) < MaxHooks + 1
    /\ psConfig' = Spread(DEFAULT_CONFIG, config)
    /\ configFile' = IF psCtx /\ written THEN [kind |-> "object", value |-> psConfig']
                     ELSE configFile
    /\ servers' = StopBegins(servers, debugServer)
    /\ hooks' = Append(hooks, Hook("plugin_set_config", "stop", debugServer,
                                   StopReturnsEarly(servers, debugServer)))
    /\ UNCHANGED <<debugServer, psCtx, psLast, psSteps>>
    /\ UNCHANGED <<rpcVars, hostVars, clientVars, watchVars, webVars, jobVars>>

\* plugin_cleanup(ctx) up to its await: await debugServer?.stop().
PluginCleanup ==
    /\ Initialized /\ ~CleanupCalled
    /\ Len(hooks) < MaxHooks + 1
    /\ servers' = StopBegins(servers, debugServer)
    /\ hooks' = Append(hooks, Hook("plugin_cleanup", "stop", debugServer,
                                   StopReturnsEarly(servers, debugServer)))
    /\ UNCHANGED <<debugServer, stateVars>>
    /\ UNCHANGED <<rpcVars, hostVars, clientVars, watchVars, webVars, jobVars>>

\* The stop() a call awaits has returned. plugin_set_config goes on to
\* debugServer = new DebugServer(pluginState.ctx, pluginState.config) and
\* start(), up to its await; plugin_cleanup to debugServer = null and
\* pluginState.cleanup(), and returns.
HookStopped(h) ==
    /\ h \in 1 .. Len(hooks) /\ hooks[h].pc = "stop"
    /\ LET stopped == StopEnds(servers, hooks[h])
       IN IF hooks[h].fn = "plugin_set_config"
          THEN /\ servers' = Append(stopped, ServerNew(psConfig))
               /\ debugServer' = Len(servers) + 1
               /\ hooks' = [hooks EXCEPT ![h].pc = "import", ![h].srv = Len(servers) + 1]
               /\ UNCHANGED stateVars
          ELSE /\ servers' = stopped
               /\ debugServer' = 0
               /\ hooks' = [hooks EXCEPT ![h].pc = "done"]
               /\ psCtx' = FALSE
               /\ UNCHANGED <<psConfig, configFile, psLast, psSteps>>
    /\ UNCHANGED <<rpcVars, hostVars, clientVars, watchVars, webVars, jobVars>>

\* The import in start() has resolved: the socket server is made, start()
\* returns and with it the lifecycle function.
HookImported(h) ==
    /\ h \in 1 .. Len(hooks) /\ hooks[h].pc = "import"
    /\ servers' = Listen(servers, hooks[h].srv)
    /\ hooks' = [hooks EXCEPT ![h].pc = "done"]
    /\ UNCHANGED <<debugServer, stateVars>>
    /\ UNCHANGED <<rpcVars, hostVars, clientVars, watchVars, webVars, jobVars>>

\* The module loaded, with anything at the configuration path.
LifeInit ==
    /\ RpcNew /\ HostNew(DEFAULT_CONFIG)
    /\ client = "vite" /\ PluginNew(DefaultOptions) /\ CliNew(FALSE) /\ registered = FALSE
    /\ WatcherNew /\ WebNew(<< >>, {}, {}) /\ JobsNew({}) /\ LifeNew
    /\ \E file \in ConfigFiles : PluginStateNew(file)

LifeNext ==
    \/ PluginInit
    \/ \E config \in GivenConfigs : \E written \in BOOLEAN : PluginSetConfig(config, written)
    \/ PluginCleanup
    \/ \E h \in 1 .. Len(hooks) : HookStopped(h)
    \/ \E h \in 1 .. Len(hooks) : HookImported(h)

SpecLife == LifeInit /\ [][LifeNext]_vars

\* The DebugServers whose socket server is listening.
Listening == { s \in 1 .. Len(servers) : servers[s].wss = "listening" }

\* plugin_cleanup has returned.
CleanedUp ==
    \E h \in 1 .. Len(hooks) : hooks[h].fn = "plugin_cleanup" /\ hooks[h].pc = "done"

\* C35: after any sequence and interleaving of plugin_init, plugin_set_config
\* and plugin_cleanup, at most one DebugServer is listening and it is the one
\* debugServer refers to; once plugin_cleanup has returned none is listening.
C35_OneServerListening ==
    /\ Cardinality(Listening) <= 1
    /\ \A s \in Listening : debugServer = s
    /\ CleanedUp => Listening = {}

\* ------------------------------------------------ clients: superseded sockets

\* Socket s has been superseded: connect() has made a later socket.
Superseded(s) == s < Len(sockets)

\* The connect() attempts in flight: the promises not yet resolved.
AttemptsInFlight == { s \in 1 .. Len(sockets) : sockets[s].resolved = "pending" }

\* C36: in the Vite plugin the close or timeout handler of a superseded socket
\* leaves connecting, rpc and remotePluginPath as they are; at most one
\* connection attempt is in flight; and while the socket of an established
\* connection is open, rpc refers to its endpoint.
C36_SupersededCloseHarmless ==
    /\ [](client = "vite" =>
            /\ Cardinality(AttemptsInFlight) <= 1
            /\ \A s \in 1 .. Len(sockets) :
                  (sockets[s].readyState = "OPEN" /\ sockets[s].info # "none") => rpc = s)
    /\ [][client = "vite" =>
            \A s \in 1 .. Len(sockets) :
               (/\ Superseded(s)
                /\ sockets[s].readyState # "CLOSED"
                /\ sockets'[s].readyState = "CLOSED")
                  => UNCHANGED <<connecting, rpc, remotePluginPath>>]_vars

\* ------------------------------------------------ clients: what connect() resolves

\* A step in which the promise connect() returned for socket s is resolved true.
ResolvesTrue(s) == sockets[s].resolved = "pending" /\ sockets'[s].resolved = "true"

\* C37: whenever the Vite plugin's connect() resolves true the connection is
\* Ready: rpc is the endpoint on that socket, the socket is open and
\* remotePluginPath holds the path getDebugInfo returned.
C37_TrueMeansReady ==
    [][client = "vite" =>
          \A s \in 1 .. Len(sockets) :
             ResolvesTrue(s) =>
                /\ rpc' = s
                /\ sockets'[s].readyState = "OPEN"
                /\ remotePluginPath']_vars

\* ------------------------------------------- client endpoint: no entry is left

\* Call h has been settled and its entry is out of the pending set.
Finished(h) ==
    /\ h \in 1 .. Len(calls)
    /\ calls[h].state # "pending" /\ calls[h].id \notin DOMAIN pending

ReloadNext ==
    \/ \E layout \in Layouts : \E failing \in {{}, {"B"}} : WatcherStart(layout, failing)
    \/ WatcherStop
    \/ \E name \in WatchTargets : \E file \in ChangedFiles : WatcherChange(name, file)
    \/ \E id \in 1 .. MaxChanges : WatcherFire(id)
    \/ \E k \in 1 .. Len(reloads) : \E listed \in BOOLEAN : ReloadSettle(k, listed)

SpecReload == WatchInit /\ [][ReloadNext]_vars

\* The reloadPlugin calls of onFileChange in flight for the unit in directory n.
ReloadsInFlight(n) ==
    { k \in 1 .. Len(reloads) : reloads[k].name = n /\ reloads[k].pc = "reloadPlugin" }

\* C39: for one unit at most one reloadPlugin call issued by onFileChange is
\* in flight at any time: a signal that fires while the calls of the signal
\* before are pending issues no second, concurrent reloadPlugin.
C39_ReloadsSerialized ==
    \A n \in WatchTargets : Cardinality(ReloadsInFlight(n)) <= 1

\* ------------------------------------------------ the CLI: one-shot deploy

\* C40: started with --deploy, the CLI never enters the interactive REPL
\* after the greeting: whatever getDebugInfo, the probe and the deploy end
\* with, the greeting handler goes on to the deploy and the process exits.
C40_OneShotNeverInteractive ==
    (client = "cli" /\ cli.deployMode) => cli.at # "repl"

====
